---- MODULE Spec2Model ----
(***************************************************************************)
(* Matching and scoring engine of the CV ranking application.              *)
(*                                                                         *)
(* Strings are sequences of one-character strings, so that lower(),        *)
(* strip(), the regular-expression search and the brace scan are computed  *)
(* character by character as the Python code computes them.  Percentages   *)
(* are exact rationals [n, d] in lowest terms (Python floats without the   *)
(* rounding of the last bit).  Cosine similarities are hundredths:         *)
(* 85 stands for 0.85.                                                     *)
(***************************************************************************)
EXTENDS Integers, Sequences, FiniteSets, TLC

VARIABLES
    model,          \* similarity_checking.model: None or a loaded backend
    jd_skills,      \* argument: the job's required skills (list of strings)
    resume_skills,  \* argument: the candidate's skills (list of strings)
    fault,          \* whether model.encode / cosine_similarity raises in this call
    skill_call,     \* "idle", or the function of similarity_checking that was called
    skill_ret,      \* what that call returned (and the sub-scores it computed)
    text,           \* argument of extract_rating, a list of text chunks
    rating_call,    \* "idle" or "extract_rating"
    rating_ret,     \* what extract_rating returned
    response,       \* argument of safe_json_loads, a list of text chunks
    json_call,      \* "idle" or "safe_json_loads"
    json_ret,       \* what safe_json_loads returned
    resumes,        \* main.py: the uploaded files, with what the extractors give for each
    jd_extracted,   \* main.py: what extract_jd_data gives for the job description
    pc,             \* main.py: the position of the analysis run
    loop_i,         \* main.py: the index of the loop the run is in
    extracted_resumes, \* main.py: the resume_data dicts of the processed files
    rankings,       \* main.py: the ranking entries, sorted once pc = "done"
    completions,     \* the invocations of litellm.completion, oldest first
    skill_input,  \* argument of _ensure_skill_list, a Python value
    ensure_call,  \* "idle" or "_ensure_skill_list"
    ensure_ret,  \* what _ensure_skill_list returned, or that it raised
    api_key,  \* module global _api_key: <<>> is None, <<k>> the stored key
    client,  \* module global _client: <<>> is None, <<c>> a NuMind client
    numind_call,  \* the last call of the extraction wrapper and its argument
    numind_ret,  \* how that call ended
    connection_cache,  \* self.connection_cache of one JobDescriptionParser
    probes,  \* GET requests sent to /api/tags so far
    posts,  \* POST requests sent to /api/generate so far
    first_probe,  \* <<>> before the first probe, then <<its outcome>>
    parser_calls,  \* method calls made on the instance so far
    parser_call,  \* the last method call and its argument
    parser_ret,  \* what that call returned
    match_resume,  \* resume_data passed to the matcher
    match_job,  \* job_requirements passed to the matcher
    match_response,  \* what the POST to /api/generate does during the call
    match_call,  \* the matcher method called last
    match_ret  \* the mapping that call returned

skill_vars  == <<model, jd_skills, resume_skills, fault, skill_call, skill_ret>>
rating_vars == <<text, rating_call, rating_ret>>
json_vars   == <<response, json_call, json_ret>>
run_vars    == <<resumes, jd_extracted, pc, loop_i, extracted_resumes, rankings, completions>>
ensure_vars == <<skill_input, ensure_call, ensure_ret>>
numind_vars == <<api_key, client, numind_call, numind_ret>>
parser_vars == <<connection_cache, probes, posts, first_probe, parser_calls, parser_call, parser_ret>>
matcher_vars == <<match_resume, match_job, match_response, match_call, match_ret>>
vars == <<skill_vars, rating_vars, json_vars, run_vars, ensure_vars, numind_vars, parser_vars, matcher_vars>>

(***************************************************************************)
(* Bounds of the model.                                                    *)
(***************************************************************************)
\* total number of entries of the two skill lists of one call
MaxSkills == 3
\* number of chunks of a text given to extract_rating
MaxRatingChunks == 5
\* number of chunks of a text given to safe_json_loads
MaxJsonChunks == 6
\* number of uploaded resumes of one analysis run
MaxResumes == 2
\* number of entries of a list given to _ensure_skill_list
MaxEntries == 2

(***************************************************************************)
(* Generic helpers.                                                        *)
(***************************************************************************)
SeqsUpTo(S, n) == UNION {[1..k -> S] : k \in 0..n}

RECURSIVE Flatten(_)
Flatten(chunks) ==
    IF chunks = <<>> THEN <<>> ELSE Head(chunks) \o Flatten(Tail(chunks))

RECURSIVE Gcd(_, _)
Gcd(a, b) == IF b = 0 THEN a ELSE Gcd(b, a % b)

Abs(x) == IF x < 0 THEN -x ELSE x

\* the rational n/d (d > 0) in lowest terms
Rat(n, d) ==
    LET g == Gcd(Abs(n), d) IN [n |-> n \div g, d |-> d \div g]

RAdd(x, y) == Rat(x.n * y.d + y.n * x.d, x.d * y.d)
RMul(x, y) == Rat(x.n * y.n, x.d * y.d)
RLeq(x, y) == x.n * y.d <= y.n * x.d
Zero == Rat(0, 1)
Hundred == Rat(100, 1)

RECURSIVE SumSeq(_)
SumSeq(s) == IF s = <<>> THEN 0 ELSE Head(s) + SumSeq(Tail(s))

Max(S) == CHOOSE x \in S : \A y \in S : y <= x
Min(S) == CHOOSE x \in S : \A y \in S : x <= y

(***************************************************************************)
(* Python str methods used by the scorers.                                 *)
(***************************************************************************)
\* str.lower() on the characters of the model's alphabet
LowerChar(c) ==
    CASE c = "A" -> "a"
      [] c = "B" -> "b"
      [] c = "E" -> "e"
      [] c = "R" -> "r"
      [] OTHER -> c

lower(s) == [i \in DOMAIN s |-> LowerChar(s[i])]

IsSpace(c) == c \in {" ", "\n", "\t"}

RECURSIVE lstrip(_)
lstrip(s) ==
    IF s # <<>> /\ IsSpace(Head(s)) THEN lstrip(Tail(s)) ELSE s

RECURSIVE rstrip(_)
rstrip(s) ==
    IF s # <<>> /\ IsSpace(s[Len(s)]) THEN rstrip(SubSeq(s, 1, Len(s) - 1)) ELSE s

\* str.strip(): whitespace removed at both ends
strip(s) == rstrip(lstrip(s))

\* the truth value of a str: the empty string is false, " " is true
Truthy(s) == s # <<>>

\* [s for s in xs if s]
FilterTruthy(xs) == SelectSeq(xs, Truthy)

(***************************************************************************)
(* similarity_checking.py: the skill scorers.                              *)
(***************************************************************************)
\* the strings a skill entry is drawn from: empty, blank, lower case,
\* upper case with a trailing blank, and a different skill
SkillStrings == { <<>>, <<" ">>, <<"a">>, <<"A", " ">>, <<"b">> }

\* a loaded SBERT model, given by the cosine similarities (hundredths) it
\* yields for two skills that differ only in case or outer whitespace
\* ("near") and for two different skills ("far")
Backends == [loaded : {TRUE}, near : {85, 100}, far : {-20, 40}]

\* model = None: the SentenceTransformer could not be loaded at import
None == [loaded |-> FALSE, near |-> 0, far |-> 0]

Models == {None} \cup Backends

\* cosine_similarity of the embeddings of strings s and t under backend m
cosine_similarity(m, s, t) ==
    IF s = t THEN 100
    ELSE IF strip(lower(s)) = strip(lower(t)) THEN m.near
    ELSE m.far

\* a returned value, and a raised exception
Ret(v) == [raised |-> FALSE, value |-> v]
Raised == [raised |-> TRUE, value |-> Zero]

\* set([s.lower().strip() for s in (skills or []) if s])
LowerStripSet(skills) ==
    {strip(lower(skills[i])) : i \in {k \in DOMAIN skills : Truthy(skills[k])}}

\* calculate_exact_match comparing the entries as they are written
calculate_exact_match_no_lower(jd, resume) ==
    LET jd_skills_set == {jd[i] : i \in DOMAIN jd}
        resume_skills_set == {resume[i] : i \in DOMAIN resume}
        exact_matches == jd_skills_set \cap resume_skills_set
    IN  IF jd_skills_set = {} THEN Zero
        ELSE Rat(Cardinality(exact_matches) * 100, Cardinality(jd_skills_set))

calculate_exact_match(jd, resume) ==
    LET jd_skills_set == LowerStripSet(jd)
        resume_skills_set == LowerStripSet(resume)
        exact_matches == jd_skills_set \cap resume_skills_set
    IN  IF jd_skills_set = {} THEN Zero
        ELSE Rat(Cardinality(exact_matches) * 100, Cardinality(jd_skills_set))

\* the worst match taken for the best one
BestMatch_min(m, s, resume) ==
    Min({cosine_similarity(m, s, resume[j]) : j \in DOMAIN resume})

\* best_match_score of JD skill s: similarities[i].max()
BestMatch(m, s, resume) ==
    Max({cosine_similarity(m, s, resume[j]) : j \in DOMAIN resume})

\* the body of the try block: (sum(matches) / len(matches)) * 100
SemanticBody(resume, jd, m, flt) ==
    IF flt THEN Raised
    ELSE LET matches == [i \in DOMAIN jd |-> BestMatch(m, jd[i], resume)]
         IN  Ret(Rat(SumSeq(matches), Len(matches)))

\* the fallback called with its two arguments exchanged
ExactFallback_swapped(jd, resume) == Ret(calculate_exact_match(resume, jd))

\* the fallback of calculate_skills_match (model is None, or except branch)
ExactFallback(jd, resume) == Ret(calculate_exact_match(jd, resume))

calculate_skills_match(resume, jd, m, flt) ==
    LET r == FilterTruthy(resume)
        j == FilterTruthy(jd)
    IN  IF r = <<>> \/ j = <<>> THEN Ret(Zero)
        ELSE IF m = None THEN ExactFallback(j, r)
        ELSE LET body == SemanticBody(r, j, m, flt)
             IN  IF body.raised THEN ExactFallback(j, r) ELSE body

\* the two weights exchanged
FinalWeighted_swapped(exact_match, semantic_match) ==
    RAdd(RMul(exact_match, Rat(6, 10)), RMul(semantic_match, Rat(4, 10)))

\* (exact_match * 0.4) + (semantic_match * 0.6)
FinalWeighted(exact_match, semantic_match) ==
    RAdd(RMul(exact_match, Rat(4, 10)), RMul(semantic_match, Rat(6, 10)))

calculate_final_skills_match(jd, resume, m, flt) ==
    LET exact_match == calculate_exact_match(jd, resume)
        semantic_match == calculate_skills_match(resume, jd, m, flt)
    IN  IF semantic_match.raised THEN Raised
        ELSE Ret(FinalWeighted(exact_match, semantic_match.value))

\* _ensure_skill_list on a list: [str(s).strip() for s in x if s]
_ensure_skill_list(x) ==
    IF x = <<>> THEN <<>>
    ELSE LET kept == FilterTruthy(x)
         IN  [i \in DOMAIN kept |-> strip(kept[i])]

\* the dict process_resume_and_jd returns
process_resume_and_jd(resume_data, jd_data, m, flt) ==
    LET resume == _ensure_skill_list(resume_data)
        jd == _ensure_skill_list(jd_data)
        final == calculate_final_skills_match(jd, resume, m, flt)
    IN  IF final.raised
        THEN [raised |-> FALSE, value |-> Zero,
              explanation |-> "Error computing skill match"]
        ELSE [raised |-> FALSE, value |-> final.value,
              explanation |-> "Skills match"]

SkillLists == SeqsUpTo(SkillStrings, MaxSkills)

SkillIdle == [raised |-> FALSE, value |-> Zero, explanation |-> ""]

SkillResult(r, expl) ==
    [raised |-> r.raised, value |-> r.value, explanation |-> expl]

\* the state of a component that a specification does not exercise
SkillsUnused ==
    /\ model = None /\ jd_skills = <<>> /\ resume_skills = <<>>
    /\ fault = FALSE /\ skill_call = "idle" /\ skill_ret = SkillIdle
RatingUnused == text = <<>> /\ rating_call = "idle" /\ rating_ret = 0
JsonUnused == response = <<>> /\ json_call = "idle" /\ json_ret = 0
RunUnused ==
    /\ resumes = <<>> /\ jd_extracted = <<>> /\ pc = "idle" /\ loop_i = 0
    /\ extracted_resumes = <<>> /\ rankings = <<>> /\ completions = <<>>
EnsureUnused == skill_input = <<>> /\ ensure_call = "idle" /\ ensure_ret = <<>>
NumindUnused == api_key = <<>> /\ client = <<>> /\ numind_call = <<>> /\ numind_ret = <<>>
ParserUnused == connection_cache = [tested |-> FALSE, connected |-> FALSE] /\ probes = 0 /\ posts = 0 /\ first_probe = <<>> /\ parser_calls = 0 /\ parser_call = <<>> /\ parser_ret = <<>>
MatcherUnused == match_resume = <<>> /\ match_job = <<>> /\ match_response = <<>> /\ match_call = "idle" /\ match_ret = <<>>

InitSkills ==
    /\ MatcherUnused
    /\ ParserUnused
    /\ NumindUnused
    /\ EnsureUnused
    /\ RatingUnused
    /\ JsonUnused
    /\ RunUnused
    /\ model \in Models
    /\ jd_skills \in SkillLists
    /\ resume_skills \in SkillLists
    /\ Len(jd_skills) + Len(resume_skills) <= MaxSkills
    /\ fault = FALSE
    /\ skill_call = "idle"
    /\ skill_ret = SkillIdle

CallExactMatch ==
    /\ skill_call = "idle"
    /\ skill_call' = "calculate_exact_match"
    /\ skill_ret' = SkillResult(Ret(calculate_exact_match(jd_skills, resume_skills)), "")
    /\ UNCHANGED <<model, jd_skills, resume_skills, fault>>

CallSkillsMatch ==
    /\ skill_call = "idle"
    /\ \E f \in BOOLEAN :
         /\ fault' = f
         /\ skill_ret' = SkillResult(
                calculate_skills_match(resume_skills, jd_skills, model, f), "")
    /\ skill_call' = "calculate_skills_match"
    /\ UNCHANGED <<model, jd_skills, resume_skills>>

CallFinalSkillsMatch ==
    /\ skill_call = "idle"
    /\ \E f \in BOOLEAN :
         /\ fault' = f
         /\ skill_ret' = SkillResult(
                calculate_final_skills_match(jd_skills, resume_skills, model, f), "")
    /\ skill_call' = "calculate_final_skills_match"
    /\ UNCHANGED <<model, jd_skills, resume_skills>>

CallProcessResumeAndJd ==
    /\ skill_call = "idle"
    /\ \E f \in BOOLEAN :
         /\ fault' = f
         /\ skill_ret' = process_resume_and_jd(resume_skills, jd_skills, model, f)
    /\ skill_call' = "process_resume_and_jd"
    /\ UNCHANGED <<model, jd_skills, resume_skills>>

NextSkills ==
    \/ CallExactMatch /\ UNCHANGED <<rating_vars, json_vars, run_vars, ensure_vars, numind_vars, parser_vars, matcher_vars>>
    \/ CallSkillsMatch /\ UNCHANGED <<rating_vars, json_vars, run_vars, ensure_vars, numind_vars, parser_vars, matcher_vars>>
    \/ CallFinalSkillsMatch /\ UNCHANGED <<rating_vars, json_vars, run_vars, ensure_vars, numind_vars, parser_vars, matcher_vars>>
    \/ CallProcessResumeAndJd /\ UNCHANGED <<rating_vars, json_vars, run_vars, ensure_vars, numind_vars, parser_vars, matcher_vars>>

SpecSkills == InitSkills /\ [][NextSkills]_vars

(***************************************************************************)
(* Properties of the skill scorers.                                        *)
(***************************************************************************)
\* SkillSet (spec 3) of a list: its entries case-folded and trimmed, as a
\* set, which never holds the empty string
SkillSet(list) == {strip(lower(list[i])) : i \in DOMAIN list} \ {<<>>}

ExactCalled == skill_call = "calculate_exact_match"
SemanticCalled == skill_call = "calculate_skills_match"
FinalCalled == skill_call = "calculate_final_skills_match"
ProcessCalled == skill_call = "process_resume_and_jd"

\* C1: calculate_exact_match(required, candidate) returns
\* |R n C| / |R| * 100, R and C being the SkillSets (case-folded, trimmed,
\* deduplicated) of the two lists, and 0 when R is empty.
C1_ExactIsOverlapOverRequired ==
    ExactCalled =>
        LET R == SkillSet(jd_skills)
            C == SkillSet(resume_skills)
        IN  skill_ret.value =
                IF R = {} THEN Zero
                ELSE Rat(Cardinality(R \cap C) * 100, Cardinality(R))

SwapCaseChar(c) ==
    CASE c = "a" -> "A"
      [] c = "A" -> "a"
      [] c = "b" -> "B"
      [] c = "B" -> "b"
      [] OTHER -> c

\* the list with the letter case of entry i changed
Recased(l, i) == [l EXCEPT ![i] = [k \in DOMAIN l[i] |-> SwapCaseChar(l[i][k])]]
\* the list with entries i and i+1 exchanged
Reordered(l, i) == [l EXCEPT ![i] = l[i + 1], ![i + 1] = l[i]]
\* the list with entry i repeated at its end
Repeated(l, i) == Append(l, l[i])

Variants(l) ==
    {Recased(l, i) : i \in DOMAIN l}
        \cup {Reordered(l, i) : i \in 1..(Len(l) - 1)}
        \cup {Repeated(l, i) : i \in DOMAIN l}

\* C2: the exact-match percentage is the same for every list obtained from
\* the required or the candidate list by exchanging two entries, repeating
\* an entry or changing the letter case of an entry.
C2_ExactInvariantUnderOrderRepeatCase ==
    ExactCalled =>
        /\ \A v \in Variants(jd_skills) :
              calculate_exact_match(v, resume_skills) = skill_ret.value
        /\ \A v \in Variants(resume_skills) :
              calculate_exact_match(jd_skills, v) = skill_ret.value

\* an upper-case required entry matched by a lower-case candidate entry,
\* next to a required entry that is not matched
C2_Witness ==
    /\ ExactCalled
    /\ Len(jd_skills) = 2
    /\ \E i \in DOMAIN jd_skills : jd_skills[i] = <<"A", " ">>
    /\ resume_skills = << <<"a">> >>
    /\ skill_ret.value = Rat(50, 1)

\* the lists the combiner hands to the two scorers
CombinerJd == IF ProcessCalled THEN _ensure_skill_list(jd_skills) ELSE jd_skills
CombinerResume ==
    IF ProcessCalled THEN _ensure_skill_list(resume_skills) ELSE resume_skills

\* C3: the final skill score is 0.4 * exact + 0.6 * semantic, the two
\* sub-scores being what calculate_exact_match and calculate_skills_match
\* return for the combiner's lists  (10 * final = 4 * exact + 6 * semantic).
C3_FinalIsWeightedSum ==
    (FinalCalled \/ ProcessCalled) =>
        LET e == calculate_exact_match(CombinerJd, CombinerResume)
            s == calculate_skills_match(CombinerResume, CombinerJd, model, fault).value
            f == skill_ret.value
        IN  10 * f.n * e.d * s.d = f.d * (4 * e.n * s.d + 6 * s.n * e.d)

\* a final score whose two sub-scores differ: exact 50, semantic 70
C3_Witness ==
    /\ ProcessCalled
    /\ model.loaded /\ ~fault
    /\ calculate_exact_match(CombinerJd, CombinerResume) = Rat(50, 1)
    /\ calculate_skills_match(CombinerResume, CombinerJd, model, fault).value = Rat(70, 1)
    /\ skill_ret.value = Rat(62, 1)

InPercentRange(x) == RLeq(Zero, x) /\ RLeq(x, Hundred)

\* C4: the exact, the semantic and the final skill percentage returned by
\* the scorers all lie in [0, 100].
C4_PercentagesInRange ==
    skill_call # "idle" => InPercentRange(skill_ret.value)

BackendFailed == model = None \/ fault

RatingLabel == <<"R", "a", "t", "i", "n", "g", ":">>
RatingChunks ==
    { RatingLabel,
      <<"r", "a", "t", "i", "n", "g", ":">>,
      <<" ">>,
      <<"7">>,
      <<"/", "1", "0">>,
      <<"E", "x", "p", "e", "r", "i", "e", "n", "c", "e", " ">>,
      <<"R", "a", "t", "i", "n", "g", ":", " ", "1", "/", "1", "0">> }

Digits == <<"0", "1", "2", "3", "4", "5", "6", "7", "8", "9">>
IsDigit(c) == \E k \in DOMAIN Digits : Digits[k] = c
DigitValue(c) == (CHOOSE k \in DOMAIN Digits : Digits[k] = c) - 1

\* int() of a string of decimal digits
RECURSIVE int(_)
int(ds) ==
    IF ds = <<>> THEN 0
    ELSE 10 * int(SubSeq(ds, 1, Len(ds) - 1)) + DigitValue(ds[Len(ds)])

\* whether the literal lit stands in s at position p
LiteralAt(s, p, lit) ==
    /\ p + Len(lit) - 1 <= Len(s)
    /\ \A k \in DOMAIN lit : s[p + k - 1] = lit[k]

\* the same, letter case ignored (re.IGNORECASE)
LiteralAt_ignorecase(s, p, lit) ==
    /\ p + Len(lit) - 1 <= Len(s)
    /\ \A k \in DOMAIN lit : LowerChar(s[p + k - 1]) = LowerChar(lit[k])

\* the position after the longest run of blanks from p (a greedy \s*:
\* giving blanks back never helps, as a digit must follow)
RECURSIVE SkipSpaces(_, _)
SkipSpaces(s, p) ==
    IF p <= Len(s) /\ IsSpace(s[p]) THEN SkipSpaces(s, p + 1) ELSE p

\* the position after the longest run of digits from p (a greedy \d+:
\* giving digits back never helps, as '/' must follow)
RECURSIVE SkipDigits(_, _)
SkipDigits(s, p) ==
    IF p <= Len(s) /\ IsDigit(s[p]) THEN SkipDigits(s, p + 1) ELSE p

\* the label of the pattern matched at p, letter case ignored
LabelAt_ignorecase(s, p) == LiteralAt_ignorecase(s, p, RatingLabel)

\* 'Rating:' of the pattern r'Rating:\s*(\d+)/10' matched at p
LabelAt(s, p) == LiteralAt(s, p, RatingLabel)

\* the pattern r'Rating:\s*(\d+)/10' matched at position p: group 1, or
\* <<>> when there is no match at p
MatchAt(s, p) ==
    IF ~LabelAt(s, p) THEN <<>>
    ELSE LET q == SkipSpaces(s, p + Len(RatingLabel))
             r == SkipDigits(s, q)
         IN  IF r > q /\ LiteralAt(s, r, <<"/", "1", "0">>)
             THEN SubSeq(s, q, r - 1)
             ELSE <<>>

\* re.search: the match at the leftmost position that has one
re_search(s) ==
    LET at == {p \in 1..Len(s) : MatchAt(s, p) # <<>>}
    IN  IF at = {} THEN <<>> ELSE MatchAt(s, Min(at))

extract_rating(s) ==
    LET match == re_search(s)
    IN  IF match # <<>> THEN int(match) ELSE 0

RatingTexts == SeqsUpTo(RatingChunks, MaxRatingChunks)

InitRating ==
    /\ MatcherUnused
    /\ ParserUnused
    /\ NumindUnused
    /\ EnsureUnused
    /\ RunUnused
    /\ SkillsUnused
    /\ JsonUnused
    /\ text \in RatingTexts
    /\ rating_call = "idle"
    /\ rating_ret = 0

CallExtractRating ==
    /\ rating_call = "idle"
    /\ rating_call' = "extract_rating"
    /\ rating_ret' = extract_rating(Flatten(text))
    /\ UNCHANGED text

NextRating == CallExtractRating /\ UNCHANGED <<skill_vars, json_vars, run_vars, ensure_vars, numind_vars, parser_vars, matcher_vars>>

SpecRating == InitRating /\ [][NextRating]_vars

(***************************************************************************)
(* Properties of extract_rating.                                           *)
(***************************************************************************)
RatingCalled == rating_call = "extract_rating"

AllIn(s, from, to, Is(_)) == \A k \in from..to : Is(s[k])

\* the occurrences <<p, q, r>> in s of 'Rating:' at p, then between min and
\* max blanks, then the digits s[q..r], then '/10'
Occurrences(s, min, max) ==
    LET labels == {p \in 1..Len(s) : LiteralAt(s, p, RatingLabel)}
        after(p) == p + Len(RatingLabel)
        starts(p) == {q \in (after(p) + min)..Min({after(p) + max, Len(s)}) :
                        AllIn(s, after(p), q - 1, IsSpace)}
        ends(q) == {r \in q..Len(s) :
                        /\ AllIn(s, q, r, IsDigit)
                        /\ LiteralAt(s, r + 1, <<"/", "1", "0">>)}
    IN  UNION {UNION {{<<p, q, r>> : r \in ends(q)} : q \in starts(p)} : p \in labels}

\* the integer of the first of the occurrences, 0 when there is none
FirstInteger(s, occ) ==
    IF occ = {} THEN 0
    ELSE LET first == CHOOSE o \in occ : \A u \in occ : o[1] <= u[1]
         IN  int(SubSeq(s, first[2], first[3]))

\* C7 as stated: extract_rating returns the integer of the first
\* occurrence of 'Rating: <integer>/10' (one blank after the colon), and 0
\* when the text holds no such occurrence.
C7_FirstLiteralRating ==
    RatingCalled =>
        LET s == Flatten(text)
        IN  rating_ret = FirstInteger(s, Occurrences(s, 1, 1))

\* C7 amended: extract_rating returns the integer of the first occurrence
\* of 'Rating:' (exact letter case) followed by any number of blanks,
\* none included, one or more digits and '/10'; 0 when there is none.
C7_FirstRatingAnyBlanks ==
    RatingCalled =>
        LET s == Flatten(text)
        IN  rating_ret = FirstInteger(s, Occurrences(s, 0, Len(s)))

\* two occurrences, the first inside 'Experience Rating:' and without a blank
C7_Witness ==
    /\ RatingCalled
    /\ text = << <<"E", "x", "p", "e", "r", "i", "e", "n", "c", "e", " ">>,
                 RatingLabel, <<"7">>, <<"/", "1", "0">>,
                 <<"R", "a", "t", "i", "n", "g", ":", " ", "1", "/", "1", "0">> >>
    /\ rating_ret = 7

\* C8: the rating extracted from a model response is an integer in 0..10.
C8_RatingInZeroToTen ==
    RatingCalled => rating_ret \in 0..10

(***************************************************************************)
(* utils.py: safe_json_loads, with json.loads on the JSON of the model's   *)
(* alphabet: objects, strings without escapes, unsigned integers.          *)
(***************************************************************************)
\* the chunks a response is made of: the braces, a key with its colon, a
\* number, a blank and a string that holds a closing brace
JsonChunks ==
    { <<"{">>, <<"}">>, <<"\"", "a", "\"", ":">>, <<"1">>, <<" ">>,
      <<"\"", "}", "\"">> }

\* the character of s at p, "" past its end
Char(s, p) == IF p \in 1..Len(s) THEN s[p] ELSE ""

\* parsed JSON values: a number, a string, a dict (a list of <<key, value>>)
JNum(n) == [t |-> "num", n |-> n, s |-> <<>>, m |-> <<>>]
JStr(str) == [t |-> "str", n |-> 0, s |-> str, m |-> <<>>]
JObj(members) == [t |-> "obj", n |-> 0, s |-> <<>>, m |-> members]

Parsed(v, next) == [ok |-> TRUE, val |-> v, next |-> next]
ParseFail == [ok |-> FALSE, val |-> JNum(0), next |-> 0]

\* d[key] = v on a dict: a key already there keeps its place
DictSet(members, key, v) ==
    IF \E k \in DOMAIN members : members[k][1] = key
    THEN [k \in DOMAIN members |->
            IF members[k][1] = key THEN <<key, v>> ELSE members[k]]
    ELSE Append(members, <<key, v>>)

DictHas(members, key) == \E k \in DOMAIN members : members[k][1] = key
DictGet(members, key) ==
    members[CHOOSE k \in DOMAIN members : members[k][1] = key][2]

\* a JSON string starting at the quote at p
ParseString(s, p) ==
    LET closing == {q \in (p + 1)..Len(s) : s[q] = "\""}
    IN  IF Char(s, p) # "\"" \/ closing = {} THEN ParseFail
        ELSE Parsed(JStr(SubSeq(s, p + 1, Min(closing) - 1)), Min(closing) + 1)

\* a JSON integer starting at p: 0, or digits without a leading 0
ParseNumber(s, p) ==
    LET q == SkipDigits(s, p)
    IN  IF q = p THEN ParseFail
        ELSE IF s[p] = "0" THEN Parsed(JNum(0), p + 1)
        ELSE Parsed(JNum(int(SubSeq(s, p, q - 1))), q)

RECURSIVE ParseValue(_, _)
RECURSIVE ParseMembers(_, _, _)

\* the members of an object from the key at p on, up to its closing brace
ParseMembers(s, p, members) ==
    LET key == ParseString(s, p)
        colon == SkipSpaces(s, key.next)
        v == ParseValue(s, SkipSpaces(s, colon + 1))
        after == SkipSpaces(s, v.next)
        sofar == DictSet(members, key.val.s, v.val)
    IN  IF ~key.ok \/ Char(s, colon) # ":" THEN ParseFail
        ELSE IF ~v.ok THEN ParseFail
        ELSE IF Char(s, after) = "}" THEN Parsed(JObj(sofar), after + 1)
        ELSE IF Char(s, after) = ","
             THEN ParseMembers(s, SkipSpaces(s, after + 1), sofar)
        ELSE ParseFail

ParseObject(s, p) ==
    LET q == SkipSpaces(s, p + 1)
    IN  IF Char(s, q) = "}" THEN Parsed(JObj(<<>>), q + 1)
        ELSE ParseMembers(s, q, <<>>)

ParseValue(s, p) ==
    IF Char(s, p) = "{" THEN ParseObject(s, p)
    ELSE IF Char(s, p) = "\"" THEN ParseString(s, p)
    ELSE IF p <= Len(s) /\ IsDigit(s[p]) THEN ParseNumber(s, p)
    ELSE ParseFail

\* json.loads: one value with only blanks around it, or JSONDecodeError
json_loads(s) ==
    LET v == ParseValue(s, SkipSpaces(s, 1))
    IN  IF v.ok /\ SkipSpaces(s, v.next) = Len(s) + 1
        THEN [raised |-> FALSE, value |-> v.val]
        ELSE [raised |-> TRUE, value |-> JNum(0)]

ErrorKey == <<"e", "r", "r", "o", "r">>
RawResponseKey ==
    <<"r", "a", "w", "_", "r", "e", "s", "p", "o", "n", "s", "e">>

\* {"error": message, "raw_response": response}
ErrorObject(message, resp) ==
    JObj(<< <<ErrorKey, JStr(<<message>>)>>, <<RawResponseKey, JStr(resp)>> >>)

\* response.find("{"): the least index of "{", 0 for -1
find(s, c) ==
    LET at == {p \in 1..Len(s) : s[p] = c}
    IN  IF at = {} THEN 0 ELSE Min(at)

\* the scan closing at the first "}", whatever the depth
RECURSIVE Scan_first_close(_, _, _)
Scan_first_close(s, i, depth) ==
    IF i > Len(s) THEN 0
    ELSE IF s[i] = "}" THEN i
    ELSE Scan_first_close(s, i + 1, depth)

\* the for loop from index i with the depth counted so far: the index
\* at which the depth is back at zero, 0 when the loop runs out
RECURSIVE Scan(_, _, _)
Scan(s, i, depth) ==
    IF i > Len(s) THEN 0
    ELSE IF s[i] = "{" THEN Scan(s, i + 1, depth + 1)
    ELSE IF s[i] = "}"
         THEN IF depth - 1 = 0 THEN i ELSE Scan(s, i + 1, depth - 1)
    ELSE Scan(s, i + 1, depth)

\* the body of the try block
SafeJsonBody(resp) ==
    LET start == find(resp, "{")
        i == Scan(resp, start, 0)
    IN  IF start = 0
        THEN [raised |-> FALSE, value |-> ErrorObject("No JSON object found", resp)]
        ELSE IF i # 0 THEN json_loads(SubSeq(resp, start, i))
        ELSE [raised |-> FALSE, value |-> ErrorObject("Unbalanced braces", resp)]

\* an except clause that lets the exception through
Except_reraise(r, resp) == r

\* except Exception as e: return {"error": str(e), "raw_response": response}
Except(r, resp) ==
    IF r.raised
    THEN [raised |-> FALSE, value |-> ErrorObject("JSONDecodeError", resp)]
    ELSE r

safe_json_loads(resp) == Except(SafeJsonBody(resp), resp)

JsonTexts == SeqsUpTo(JsonChunks, MaxJsonChunks)

InitJson ==
    /\ MatcherUnused
    /\ ParserUnused
    /\ NumindUnused
    /\ EnsureUnused
    /\ RunUnused
    /\ SkillsUnused
    /\ RatingUnused
    /\ response \in JsonTexts
    /\ json_call = "idle"
    /\ json_ret = [raised |-> FALSE, value |-> JNum(0)]

CallSafeJsonLoads ==
    /\ json_call = "idle"
    /\ json_call' = "safe_json_loads"
    /\ json_ret' = safe_json_loads(Flatten(response))
    /\ UNCHANGED response

NextJson == CallSafeJsonLoads /\ UNCHANGED <<skill_vars, rating_vars, run_vars, ensure_vars, numind_vars, parser_vars, matcher_vars>>

SpecJson == InitJson /\ [][NextJson]_vars

(***************************************************************************)
(* Properties of safe_json_loads.                                          *)
(***************************************************************************)
JsonCalled == json_call = "safe_json_loads"

\* the position of the first "{" of s, 0 when it has none
FirstOpen(s) ==
    IF \A p \in 1..Len(s) : s[p] # "{" THEN 0
    ELSE CHOOSE p \in 1..Len(s) :
            s[p] = "{" /\ \A q \in 1..(p - 1) : s[q] # "{"

\* the brace depth of s[a..b]: its "{" minus its "}"
Depth(s, a, b) ==
    Cardinality({k \in a..b : s[k] = "{"}) - Cardinality({k \in a..b : s[k] = "}"})

\* the first position from a at which the depth of s[a..] is back at zero,
\* 0 when it never is
ClosingOf(s, a) ==
    LET back == {b \in a..Len(s) : Depth(s, a, b) = 0}
    IN  IF a = 0 \/ back = {} THEN 0
        ELSE CHOOSE b \in back : \A c \in back : b <= c

\* the span from the first "{" to the "}" that closes it
BalancedSpan(s) == SubSeq(s, FirstOpen(s), ClosingOf(s, FirstOpen(s)))

HasBalancedSpan(s) == FirstOpen(s) # 0 /\ ClosingOf(s, FirstOpen(s)) # 0

\* C9: when the first "{" of the text opens a span that the depth count
\* closes and that span parses as JSON, safe_json_loads returns the parse
\* of that span, whatever stands before and after it.
C9_ParsesFirstBalancedSpan ==
    JsonCalled =>
        LET s == Flatten(response)
        IN  (HasBalancedSpan(s) /\ ~json_loads(BalancedSpan(s)).raised) =>
                /\ ~json_ret.raised
                /\ json_ret.value = json_loads(BalancedSpan(s)).value

\* 1{"a":1}} : text before the object and a brace after it
C9_Witness ==
    /\ JsonCalled
    /\ response = << <<"1">>, <<"{">>, <<"\"", "a", "\"", ":">>, <<"1">>,
                     <<"}">>, <<"}">> >>
    /\ json_ret.value = JObj(<< << <<"a">>, JNum(1) >> >>)

\* C10: safe_json_loads never raises; without a "{", with a depth that
\* never returns to zero or with a balanced span that does not parse, it
\* returns an object with an 'error' field and a 'raw_response' field equal
\* to the input; otherwise it returns the whole parsed object of the span.
C10_ErrorObjectOrWholeObject ==
    JsonCalled =>
        LET s == Flatten(response)
            failed == ~HasBalancedSpan(s) \/ json_loads(BalancedSpan(s)).raised
            v == json_ret.value
        IN  /\ ~json_ret.raised
            /\ v.t = "obj"
            /\ IF failed
               THEN /\ DictHas(v.m, ErrorKey)
                    /\ DictHas(v.m, RawResponseKey)
                    /\ DictGet(v.m, RawResponseKey) = JStr(s)
               ELSE /\ ~DictHas(v.m, ErrorKey)
                    /\ Parsed(v, Len(BalancedSpan(s)) + 1) = ParseValue(BalancedSpan(s), 1)

\* {"a":"}"} : the depth closes inside the string and the span does not parse
C10_Witness ==
    /\ JsonCalled
    /\ response = << <<"{">>, <<"\"", "a", "\"", ":">>, <<"\"", "}", "\"">>, <<"}">> >>
    /\ DictHas(json_ret.value.m, ErrorKey)
    /\ DictGet(json_ret.value.m, RawResponseKey) = JStr(Flatten(response))

\* the positions of s at which a JSON object starts and parses
ValidObjectStarts(s) ==
    {a \in 1..Len(s) : s[a] = "{" /\ ParseValue(s, a).ok}

\* the first valid JSON object of s: the parse at the least such position
FirstValidObject(s) ==
    ParseValue(s, Min(ValidObjectStarts(s))).val

\* C11: when the text contains a valid JSON object, with any text around
\* it, a brace inside one of its strings or an unparseable brace span before
\* it, safe_json_loads returns the first valid JSON object of the text.
C11_ReturnsFirstValidObject ==
    JsonCalled =>
        LET s == Flatten(response)
        IN  ValidObjectStarts(s) # {} =>
                /\ ~json_ret.raised
                /\ json_ret.value = FirstValidObject(s)

(***************************************************************************)
(* ranker.py: the call of the text-generation model.                       *)
(***************************************************************************)
\* a str value, and the None a response without content carries
Str(t) == [none |-> FALSE, text |-> t]
NoContent == [none |-> TRUE, text |-> <<>>]

\* "Rating: 7/10" and "Rating:77/10"
Rating7Text == RatingLabel \o <<" ", "7", "/", "1", "0">>
Rating77Text == RatingLabel \o <<"7", "7", "/", "1", "0">>
NoRatingText == <<"n", "/", "a">>
TimeoutText == <<"t", "i", "m", "e", "o", "u", "t">>

\* what one invocation of litellm.completion can do: answer with a text,
\* answer with no content, or raise an exception with a message
Outcome(kind, t) == [kind |-> kind, text |-> t]
CompletionOutcomes ==
    { Outcome("content", Rating7Text), Outcome("content", Rating77Text),
      Outcome("content", NoRatingText), Outcome("none", <<>>),
      Outcome("raise", TimeoutText), Outcome("raise", Rating7Text) }

\* an error text without the name of the server
ErrorText_short(message) ==
    <<"E", "r", "r", "o", "r", ":", " ">> \o message

\* f"Error calling Ollama model: {e}"
ErrorText(message) ==
    <<"E", "r", "r", "o", "r", " ", "c", "a", "l", "l", "i", "n", "g", " ",
      "O", "l", "l", "a", "m", "a", " ", "m", "o", "d", "e", "l", ":", " ">>
    \o message

\* a wrapper that calls completion a second time after an exception
get_rank_from_ollama_retry(o) ==
    [ completions |-> IF o.kind = "raise" THEN <<o, o>> ELSE <<o>>,
      raised |-> FALSE,
      value |-> IF o.kind = "raise" THEN Str(ErrorText(o.text))
                ELSE IF o.kind = "none" THEN NoContent
                ELSE Str(o.text) ]

\* get_rank_from_ollama when completion behaves as o: the invocations of
\* completion it makes and the value it returns
get_rank_from_ollama(o) ==
    [ completions |-> <<o>>,
      raised |-> FALSE,
      value |-> IF o.kind = "raise" THEN Str(ErrorText(o.text))
                ELSE IF o.kind = "none" THEN NoContent
                ELSE Str(o.text) ]

(***************************************************************************)
(* main.py: DocumentProcessor.                                             *)
(***************************************************************************)
max_resumes == 10

CvText == <<"c", "v">>

\* what the text extractor and the structured extractor give for a file
ResumeFile(suffix, extract_raises, t, structured, skills) ==
    [ suffix |-> suffix, extract_raises |-> extract_raises, text |-> t,
      structured |-> structured, skills |-> skills ]

\* the uploads of the model: two resumes that extract well, one whose
\* structured extraction returns an error dict, one whose structured
\* extraction raises, a PDF without text, a DOCX whose extraction raises
\* and a file of another type
ResumeFiles ==
    { ResumeFile("pdf", FALSE, CvText, "ok", <<>>),
      ResumeFile("docx", FALSE, CvText, "ok", << <<"a">> >>),
      ResumeFile("pdf", FALSE, CvText, "error", <<>>),
      ResumeFile("pdf", FALSE, CvText, "raise", <<>>),
      ResumeFile("pdf", FALSE, <<>>, "ok", <<>>),
      ResumeFile("docx", TRUE, <<>>, "ok", <<>>),
      ResumeFile("txt", FALSE, CvText, "ok", <<>>) }

\* a process_resume that passes on the error dict of the structured extractor
process_resume_unchecked(resume_file) ==
    LET f == resume_file.file
    IN  IF f.suffix \notin {"pdf", "docx"} THEN <<>>
        ELSE IF f.extract_raises THEN <<>>
        ELSE IF f.text = <<>> \/ strip(f.text) = <<>> THEN <<>>
        ELSE IF f.structured = "raise" THEN <<>>
        ELSE << [ filename |-> resume_file.name, text |-> f.text,
                  extracted |-> [skills |-> f.skills] ] >>

\* process_resume: <<>> for None, else the one resume_data dict
process_resume(resume_file) ==
    LET f == resume_file.file
    IN  IF f.suffix \notin {"pdf", "docx"} THEN <<>>
        ELSE IF f.extract_raises THEN <<>>
        ELSE IF f.text = <<>> \/ strip(f.text) = <<>> THEN <<>>
        ELSE IF f.structured = "raise" THEN <<>>
        ELSE IF f.structured = "error" THEN <<>>
        ELSE << [ filename |-> resume_file.name, text |-> f.text,
                  extracted |-> [skills |-> f.skills] ] >>

\* what extract_jd_data gives: an error dict, or a result with the skills
JdLists == { <<>>, << <<"a">> >>, << <<"b">> >> }
JdOutputs ==
    {[error |-> TRUE, skills |-> <<>>]}
        \cup {[error |-> FALSE, skills |-> l] : l \in JdLists}

\* process_jd: <<>> for None, else the one dict with the skills
process_jd(jd) ==
    IF jd.error THEN <<>>
    ELSE << [experience |-> "Experience Required", skills |-> jd.skills] >>

(***************************************************************************)
(* main.py: the analysis run started by the Analyze button.                *)
(***************************************************************************)
\* a skill_match_result dict: the keys it has and the values under them
SkillDict(keys, score, explanation) ==
    [ keys |-> keys, final_match_score |-> score, explanation |-> explanation ]

\* skill_match_result = {}
EmptyDict == SkillDict({}, Zero, "")

\* the skill part of one iteration: the dict kept and skill_score_out_of_100
SkillStep(resume_skills_, jd_skills_, m) ==
    IF jd_skills_ # <<>>
    THEN LET r == process_resume_and_jd(resume_skills_, jd_skills_, m, FALSE)
         IN  IF r.raised
             THEN [ result |-> SkillDict({"final_match_score", "explanation", "error"},
                                         Zero, "Error computing skill match"),
                    score |-> Zero ]
             ELSE [ result |-> SkillDict({"final_match_score", "explanation", "score"},
                                         r.value, r.explanation),
                    score |-> r.value ]
    ELSE [ result |-> EmptyDict, score |-> Zero ]

\* an aggregate with the two weights exchanged
AggregateScore_swapped(experience_score, skill_score_out_of_100) ==
    RAdd(RMul(Rat(experience_score, 1), Rat(6, 10)),
         RMul(skill_score_out_of_100, Rat(4, 10)))

\* (experience_score * 0.4) + (skill_score_out_of_100 * 0.6)
AggregateScore(experience_score, skill_score_out_of_100) ==
    RAdd(RMul(Rat(experience_score, 1), Rat(4, 10)),
         RMul(skill_score_out_of_100, Rat(6, 10)))

\* a loop body without its try: an exception of one candidate ends the run
OuterExcept_reraise(step) == step

\* except Exception as e: st.warning(...); continue
OuterExcept(step) ==
    IF step.raised THEN [step EXCEPT !.raised = FALSE, !.entries = <<>>]
    ELSE step

\* a loop body whose experience score grows with the entries collected so far
RankBody_counts(resume_data, o, jd_skills_, m) ==
    LET call == get_rank_from_ollama(o)
        resp == call.value
        skill == SkillStep(resume_data.extracted.skills, jd_skills_, m)
    IN  IF resp.none
        THEN [ completions |-> call.completions, raised |-> TRUE, entries |-> <<>> ]
        ELSE LET experience_score == (extract_rating(resp.text) + Len(rankings)) * 10
             IN  [ completions |-> call.completions,
                   raised |-> FALSE,
                   entries |-> << [ name |-> resume_data.filename,
                                    score_and_explanation |-> resp.text,
                                    skill_match_result |-> skill.result,
                                    aggregate_score |->
                                        AggregateScore(experience_score, skill.score) ] >> ]

\* the try block of one iteration of the ranking loop for resume_data when
\* completion behaves as o: the completions made, whether the block raised
\* and the entries appended to rankings
RankBody(resume_data, o, jd_skills_, m) ==
    LET call == get_rank_from_ollama(o)
        resp == call.value
        skill == SkillStep(resume_data.extracted.skills, jd_skills_, m)
    IN  IF resp.none
        THEN \* extract_rating(None): re.search raises TypeError
             [ completions |-> call.completions, raised |-> TRUE, entries |-> <<>> ]
        ELSE LET experience_score == extract_rating(resp.text) * 10
             IN  [ completions |-> call.completions,
                   raised |-> FALSE,
                   entries |-> << [ name |-> resume_data.filename,
                                    score_and_explanation |-> resp.text,
                                    skill_match_result |-> skill.result,
                                    aggregate_score |->
                                        AggregateScore(experience_score, skill.score) ] >> ]

RankStep(resume_data, o, jd_skills_, m) ==
    OuterExcept(RankBody(resume_data, o, jd_skills_, m))

\* a comparison under which an entry moves ahead of an earlier equal one
KeepsAhead_strict(earlier, later) ==
    ~RLeq(earlier.aggregate_score, later.aggregate_score)

\* list.sort(key=aggregate_score, reverse=True) leaves an earlier entry
\* ahead of a later one unless the later one has the greater key
KeepsAhead(earlier, later) ==
    RLeq(later.aggregate_score, earlier.aggregate_score)

\* x put into the sorted list behind every entry that keeps ahead of it
RECURSIVE Insert(_, _)
Insert(sorted, x) ==
    IF sorted # <<>> /\ KeepsAhead(Head(sorted), x)
    THEN <<Head(sorted)>> \o Insert(Tail(sorted), x)
    ELSE <<x>> \o sorted

\* rankings.sort(key=lambda x: x["aggregate_score"], reverse=True)
RECURSIVE sort(_)
sort(l) ==
    IF l = <<>> THEN <<>>
    ELSE Insert(sort(SubSeq(l, 1, Len(l) - 1)), l[Len(l)])

\* resumes[:processor.max_resumes]
Limited(l) == SubSeq(l, 1, Min({Len(l), max_resumes}))

RunModels == {None, [loaded |-> TRUE, near |-> 85, far |-> -20]}

\* the uploads: each file named by its place in the upload
Uploads ==
    UNION { { [k \in 1..n |-> [name |-> k, file |-> fs[k]]] :
                fs \in [1..n -> ResumeFiles] } : n \in 1..MaxResumes }

InitRun ==
    /\ MatcherUnused
    /\ ParserUnused
    /\ NumindUnused
    /\ EnsureUnused
    /\ RatingUnused
    /\ JsonUnused
    /\ model \in RunModels
    /\ jd_skills = <<>> /\ resume_skills = <<>>
    /\ fault = FALSE /\ skill_call = "idle" /\ skill_ret = SkillIdle
    /\ resumes \in Uploads
    /\ jd_extracted \in JdOutputs
    /\ pc = "resumes"
    /\ loop_i = 1
    /\ extracted_resumes = <<>>
    /\ rankings = <<>>
    /\ completions = <<>>

\* one iteration of the loop over the uploaded files
ProcessResume ==
    /\ pc = "resumes"
    /\ loop_i <= Len(Limited(resumes))
    /\ extracted_resumes' = extracted_resumes \o process_resume(Limited(resumes)[loop_i])
    /\ loop_i' = loop_i + 1
    /\ UNCHANGED <<resumes, jd_extracted, pc, rankings, completions, jd_skills>>

\* after the loop: stop without resumes, else process the job description
\* and stop without a result
ProcessJd ==
    /\ pc = "resumes"
    /\ loop_i > Len(Limited(resumes))
    /\ LET jd_result == process_jd(jd_extracted)
       IN  IF extracted_resumes = <<>> \/ jd_result = <<>>
           THEN pc' = "stopped" /\ UNCHANGED jd_skills
           ELSE pc' = "rank" /\ jd_skills' = jd_result[1].skills
    /\ loop_i' = 1
    /\ UNCHANGED <<resumes, jd_extracted, extracted_resumes, rankings, completions>>

\* one iteration of the loop over extracted_resumes
RankCandidate ==
    /\ pc = "rank"
    /\ loop_i <= Len(extracted_resumes)
    /\ \E o \in CompletionOutcomes :
         LET step == RankStep(extracted_resumes[loop_i], o, jd_skills, model)
         IN  /\ completions' = completions \o
                    [k \in DOMAIN step.completions |->
                        [name |-> extracted_resumes[loop_i].filename,
                         outcome |-> step.completions[k]]]
             /\ rankings' = rankings \o step.entries
             /\ IF step.raised
                THEN pc' = "stopped" /\ UNCHANGED loop_i
                ELSE pc' = "rank" /\ loop_i' = loop_i + 1
    /\ UNCHANGED <<resumes, jd_extracted, extracted_resumes, jd_skills>>

\* a sort that does not wait for the end of the loop
SortRankings_early ==
    /\ pc = "rank"
    /\ rankings # <<>>
    /\ pc' = "done" /\ rankings' = sort(rankings)
    /\ UNCHANGED <<resumes, jd_extracted, loop_i, extracted_resumes, completions, jd_skills>>

\* after the loop: stop without rankings, else sort them and show them
SortRankings ==
    /\ pc = "rank"
    /\ loop_i > Len(extracted_resumes)
    /\ IF rankings = <<>>
       THEN pc' = "stopped" /\ UNCHANGED rankings
       ELSE pc' = "done" /\ rankings' = sort(rankings)
    /\ UNCHANGED <<resumes, jd_extracted, loop_i, extracted_resumes, completions, jd_skills>>

RunOther == <<model, resume_skills, fault, skill_call, skill_ret, rating_vars, json_vars, ensure_vars, numind_vars, parser_vars, matcher_vars>>

NextRun ==
    \/ ProcessResume /\ UNCHANGED RunOther
    \/ ProcessJd /\ UNCHANGED RunOther
    \/ RankCandidate /\ UNCHANGED RunOther
    \/ SortRankings /\ UNCHANGED RunOther

SpecRun == InitRun /\ [][NextRun]_vars

(***************************************************************************)
(* Properties of the analysis run.                                         *)
(***************************************************************************)
StartsWith(s, prefix) ==
    Len(s) >= Len(prefix) /\ SubSeq(s, 1, Len(prefix)) = prefix

\* the ranking entries of the candidate with this file name
EntriesOf(name) == SelectSeq(rankings, LAMBDA e : e.name = name)

\* the invocations of completion that raised
RaisedCalls == {k \in DOMAIN completions : completions[k].outcome.kind = "raise"}

ClaimedPrefix ==
    <<"E", "r", "r", "o", "r", " ", "c", "a", "l", "l", "i", "n", "g", " ",
      "m", "o", "d", "e", "l", ":">>

WrittenPrefix ==
    <<"E", "r", "r", "o", "r", " ", "c", "a", "l", "l", "i", "n", "g", " ",
      "O", "l", "l", "a", "m", "a", " ", "m", "o", "d", "e", "l", ":", " ">>

\* C12 as stated: when the completion call raises, get_rank_from_ollama
\* does not raise and the text it returns starts with 'Error calling model:'.
C12_StartsWithErrorCallingModel ==
    \A k \in RaisedCalls :
        LET es == EntriesOf(completions[k].name)
        IN  /\ es # <<>>
            /\ StartsWith(es[1].score_and_explanation, ClaimedPrefix)

\* C12 amended: when the completion call raises, get_rank_from_ollama does
\* not raise and returns 'Error calling Ollama model: ' followed by the
\* message of the exception.
C12_ReturnsErrorCallingOllamaModel ==
    \A k \in RaisedCalls :
        LET es == EntriesOf(completions[k].name)
        IN  /\ es # <<>>
            /\ es[1].score_and_explanation
                   = WrittenPrefix \o completions[k].outcome.text

\* a call that raised 'timeout' and the text kept for its candidate
C12_Witness ==
    \E k \in RaisedCalls :
        /\ completions[k].outcome.text = TimeoutText
        /\ EntriesOf(completions[k].name) # <<>>
        /\ EntriesOf(completions[k].name)[1].score_and_explanation
               = WrittenPrefix \o TimeoutText

\* the skill score that went into an entry: the final score of its
\* skill_match_result, 0 for a dict without one
SkillScoreOf(e) ==
    IF "final_match_score" \in e.skill_match_result.keys
    THEN e.skill_match_result.final_match_score
    ELSE Zero

\* C13: for every exception the completion call raises, whatever its
\* message, the rating extracted from the returned error text is 0, the
\* candidate's experience component is 0 and the candidate is still ranked.
C13_ErrorTextRatesZero ==
    \A k \in RaisedCalls :
        LET es == EntriesOf(completions[k].name)
        IN  /\ es # <<>>
            /\ extract_rating(es[1].score_and_explanation) = 0
            /\ es[1].aggregate_score = RMul(SkillScoreOf(es[1]), Rat(6, 10))

\* how often completion was invoked for the candidate with this file name
CallsFor(name) ==
    Cardinality({k \in DOMAIN completions : completions[k].name = name})

\* the candidates the ranking loop has gone through
Reached ==
    IF pc \in {"rank", "done", "stopped"}
    THEN {j \in DOMAIN extracted_resumes : j < loop_i}
    ELSE {}

\* C14: in every analysis run, completion is invoked exactly once for each
\* candidate the ranking loop has reached, whether the call failed or not,
\* and not at all for the others.
C14_OneCallPerCandidate ==
    /\ \A j \in DOMAIN extracted_resumes :
           CallsFor(extracted_resumes[j].filename)
               = IF j \in Reached THEN 1 ELSE 0
    /\ Len(completions) = Cardinality(Reached)

\* a finished run of two candidates, the call of the first one raised
C14_Witness ==
    /\ pc = "done"
    /\ Len(extracted_resumes) = 2
    /\ Len(completions) = 2
    /\ completions[1].outcome.kind = "raise"
    /\ completions[2].name # completions[1].name

\* the resume_data dict of the candidate with this file name
ResumeDataOf(name) ==
    SelectSeq(extracted_resumes, LAMBDA r : r.filename = name)[1]

\* the text completion answered for the candidate with this file name
ResponseOf(name) ==
    LET k == CHOOSE k \in DOMAIN completions : completions[k].name = name
        o == completions[k].outcome
    IN  IF o.kind = "raise" THEN WrittenPrefix \o o.text ELSE o.text

\* the final skill score of the candidate with this file name
FinalPctOf(name) ==
    IF jd_skills = <<>> THEN Zero
    ELSE process_resume_and_jd(ResumeDataOf(name).extracted.skills,
                               jd_skills, model, FALSE).value

\* C15: for every ranked candidate, the aggregate total is
\* 0.4 * (rating * 10) + 0.6 * final_pct, with the rating extracted from
\* that candidate's model response and final_pct that candidate's final
\* skill score.
C15_TotalIsWeightedSum ==
    \A k \in DOMAIN rankings :
        LET e == rankings[k]
            rating == extract_rating(ResponseOf(e.name))
            final_pct == FinalPctOf(e.name)
        IN  /\ e.score_and_explanation = ResponseOf(e.name)
            /\ SkillScoreOf(e) = final_pct
            /\ e.aggregate_score
                   = RAdd(Rat(4 * (rating * 10), 10),
                          Rat(6 * final_pct.n, 10 * final_pct.d))

\* a candidate rated 7 with a skill score of 100: 28 + 60 = 88
C15_Witness ==
    \E k \in DOMAIN rankings :
        /\ extract_rating(rankings[k].score_and_explanation) = 7
        /\ SkillScoreOf(rankings[k]) = Hundred
        /\ rankings[k].aggregate_score = Rat(88, 1)

\* C16: in every analysis run, whatever the model answers and whatever
\* the skill match gives, every entry of the rankings carries an aggregate
\* total between 0 and 100.
C16_TotalInPercentRange ==
    \A k \in DOMAIN rankings :
        /\ RLeq(Zero, rankings[k].aggregate_score)
        /\ RLeq(rankings[k].aggregate_score, Hundred)

\* the place of entry e in the list l
PlaceIn(l, e) == CHOOSE j \in DOMAIN l : l[j] = e

\* after holds the entries of before, each once, by falling total, and
\* entries of equal total in the order they have in before
StableDescending(before, after) ==
    /\ Len(after) = Len(before)
    /\ \A j \in DOMAIN before : \E k \in DOMAIN after : after[k] = before[j]
    /\ \A k, l \in DOMAIN after :
           k < l =>
               /\ RLeq(after[l].aggregate_score, after[k].aggregate_score)
               /\ after[k] # after[l]
               /\ after[k].aggregate_score = after[l].aggregate_score
                      => PlaceIn(before, after[k]) < PlaceIn(before, after[l])

\* C17: the final ranking is a permutation of the collected entries by
\* total from highest to lowest, and entries of equal total keep the order
\* in which the candidates were processed.
C17_StableDescendingPermutation ==
    [][(pc = "rank" /\ pc' = "done") => StableDescending(rankings, rankings')]_vars

\* a shown ranking of two candidates of equal total, in upload order
C17_Witness ==
    /\ pc = "done"
    /\ Len(rankings) = 2
    /\ rankings[1].aggregate_score = rankings[2].aggregate_score
    /\ rankings[1].name < rankings[2].name

\* the text extraction of the file gave text that is not blank
HasText(f) ==
    /\ f.suffix \in {"pdf", "docx"}
    /\ ~f.extract_raises
    /\ strip(f.text) # <<>>

\* the ranking step of the candidate with this file name raised
StepRaised(name) ==
    \E k \in DOMAIN completions :
        completions[k].name = name /\ completions[k].outcome.kind = "none"

C19_NoJdSkillsExplained ==
    (pc \in {"rank", "done"} /\ jd_skills = <<>>) =>
        \A k \in DOMAIN rankings :
            LET r == rankings[k].skill_match_result
            IN  /\ "final_match_score" \in r.keys
                /\ r.final_match_score = Zero
                /\ "explanation" \in r.keys
                /\ r.explanation = "No JD skills provided."

\* C20: an exception in the scoring step of one candidate stays within
\* that step: the run does not stop in the middle of the batch, every
\* candidate the loop has reached without such an exception has its entry,
\* and the run stops without a ranking only when no candidate has one.
C20_FailureAbsorbed ==
    /\ pc = "stopped" =>
           \/ completions = <<>>
           \/ /\ loop_i > Len(extracted_resumes)
              /\ rankings = <<>>
    /\ pc \in {"rank", "done"} =>
           \A j \in Reached :
               Len(EntriesOf(extracted_resumes[j].filename))
                   = IF StepRaised(extracted_resumes[j].filename) THEN 0 ELSE 1

\* the step of the first candidate raised and the second one is ranked
C20_Witness ==
    /\ pc = "done"
    /\ Len(extracted_resumes) = 2
    /\ StepRaised(extracted_resumes[1].filename)
    /\ Len(rankings) = 1
    /\ rankings[1].name = extracted_resumes[2].filename

(***************************************************************************)
(* similarity_checking.py: _ensure_skill_list on any Python value.         *)
(***************************************************************************)
\* a Python value: None, a str, an int, a list of values, or a dict given
\* as the list of its <<key, value>> items (keys are strs)
PyVal(t, s, n, items, d) == [t |-> t, s |-> s, n |-> n, items |-> items, d |-> d]
PyNone == PyVal("none", <<>>, 0, <<>>, <<>>)
PyStr(s) == PyVal("str", s, 0, <<>>, <<>>)
PyInt(n) == PyVal("int", <<>>, n, <<>>, <<>>)
PyList(items) == PyVal("list", <<>>, 0, items, <<>>)
PyDict(d) == PyVal("dict", <<>>, 0, <<>>, d)

\* the truth value of a Python value
bool(v) ==
    CASE v.t = "none" -> FALSE
      [] v.t = "str" -> v.s # <<>>
      [] v.t = "int" -> v.n # 0
      [] v.t = "list" -> v.items # <<>>
      [] v.t = "dict" -> v.d # <<>>

\* str() of a natural number
RECURSIVE DigitStr(_)
DigitStr(n) ==
    IF n < 10 THEN <<Digits[n + 1]>>
    ELSE DigitStr(n \div 10) \o <<Digits[(n % 10) + 1]>>

\* ", ".join(parts)
RECURSIVE JoinComma(_)
JoinComma(parts) ==
    IF parts = <<>> THEN <<>>
    ELSE IF Len(parts) = 1 THEN parts[1]
    ELSE parts[1] \o <<",", " ">> \o JoinComma(Tail(parts))

\* repr() of a value: strs in single quotes, lists in brackets, dicts in braces
RECURSIVE repr(_)
repr(v) ==
    CASE v.t = "none" -> <<"N", "o", "n", "e">>
      [] v.t = "str" -> <<"'">> \o v.s \o <<"'">>
      [] v.t = "int" -> DigitStr(v.n)
      [] v.t = "list" ->
            <<"[">> \o JoinComma([k \in DOMAIN v.items |-> repr(v.items[k])]) \o <<"]">>
      [] v.t = "dict" ->
            <<"{">> \o JoinComma([k \in DOMAIN v.d |->
                        <<"'">> \o v.d[k][1] \o <<"'", ":", " ">> \o repr(v.d[k][2])])
                \o <<"}">>

\* str() of a value: a str as it is, anything else as its repr
str(v) == IF v.t = "str" THEN v.s ELSE repr(v)

\* text.split(','): the parts between the commas
RECURSIVE split(_, _)
split(t, sep) ==
    LET at == {p \in DOMAIN t : t[p] = sep}
    IN  IF at = {} THEN <<t>>
        ELSE <<SubSeq(t, 1, Min(at) - 1)>> \o split(SubSeq(t, Min(at) + 1, Len(t)), sep)

\* what a call returns: a list of strs, or that it raised
Returned(l) == [raised |-> FALSE, value |-> l]
RaisedError == [raised |-> TRUE, value |-> <<>>]

\* for s in v: the values a for loop goes through, or TypeError
Iterate(v) ==
    CASE v.t = "list" -> Returned(v.items)
      [] v.t = "str" -> Returned([k \in DOMAIN v.s |-> PyStr(<<v.s[k]>>)])
      [] v.t = "dict" -> Returned([k \in DOMAIN v.d |-> PyStr(v.d[k][1])])
      [] OTHER -> RaisedError

\* a comprehension that strips first and keeps what is left
Comprehension_strip_first(field) ==
    LET it == Iterate(field)
        stripped == [k \in DOMAIN it.value |-> strip(str(it.value[k]))]
    IN  IF it.raised THEN RaisedError
        ELSE Returned(SelectSeq(stripped, LAMBDA s : s # <<>>))

\* a comprehension that also folds the case of each entry
Comprehension_lower(field) ==
    LET it == Iterate(field)
        kept == SelectSeq(it.value, bool)
    IN  IF it.raised THEN RaisedError
        ELSE Returned([k \in DOMAIN kept |-> lower(strip(str(kept[k])))])

\* [str(s).strip() for s in field if s]
Comprehension(field) ==
    LET it == Iterate(field)
        kept == SelectSeq(it.value, bool)
    IN  IF it.raised THEN RaisedError
        ELSE Returned([k \in DOMAIN kept |-> strip(str(kept[k]))])

ResultKey == <<"r", "e", "s", "u", "l", "t">>
TechnicalSkillsKey ==
    <<"T", "e", "c", "h", "n", "i", "c", "a", "l", " ", "S", "k", "i", "l", "l", "s">>
SkillsRequiredKey ==
    <<"S", "k", "i", "l", "l", "s", " ", "R", "e", "q", "u", "i", "r", "e", "d">>
OtherKey == <<"x">>

\* d.get(key, [])
get(d, key) == IF DictHas(d, key) THEN DictGet(d, key) ELSE PyList(<<>>)

\* the fallback: the non-blank parts of str(x) between commas, stripped
CommaSplit(x) ==
    LET parts == split(str(x), ",")
        kept == SelectSeq(parts, LAMBDA p : strip(p) # <<>>)
    IN  Returned([k \in DOMAIN kept |-> strip(kept[k])])

\* a lookup that also reads 'Skills Required' under the 'result' wrapper
ResultBranch_both_keys(inner) ==
    IF DictHas(inner, TechnicalSkillsKey)
    THEN Comprehension(DictGet(inner, TechnicalSkillsKey))
    ELSE Comprehension(get(inner, SkillsRequiredKey))

\* x['result'].get('Technical Skills', []) put through the comprehension
ResultBranch(inner) == Comprehension(get(inner, TechnicalSkillsKey))

\* _ensure_skill_list(x) for a value x of any shape
ensure_skill_list(x) ==
    IF ~bool(x) THEN Returned(<<>>)
    ELSE IF x.t = "list" THEN Comprehension(x)
    ELSE IF x.t = "dict" /\ DictHas(x.d, ResultKey) /\ DictGet(x.d, ResultKey).t = "dict"
         THEN ResultBranch(DictGet(x.d, ResultKey).d)
    ELSE IF x.t = "dict" /\ DictHas(x.d, TechnicalSkillsKey)
         THEN Comprehension(get(x.d, TechnicalSkillsKey))
    ELSE IF x.t = "dict" /\ DictHas(x.d, SkillsRequiredKey)
         THEN Comprehension(get(x.d, SkillsRequiredKey))
    ELSE CommaSplit(x)

extract_skills_from_resume(resume_data) == ensure_skill_list(resume_data)
extract_skills_from_jd(jd_data) == ensure_skill_list(jd_data)

\* the entries a list of skills is made of: strs, None and a number
Entries == {PyStr(s) : s \in SkillStrings} \cup {PyNone, PyInt(5)}
EntryLists == {PyList(l) : l \in SeqsUpTo(Entries, MaxEntries)}

\* what a skills field can hold: a list, None, a number or one str
RawSkillsText == <<"a", ",", " ", "b", ",">>
FieldValues == EntryLists \cup {PyNone, PyInt(5), PyStr(RawSkillsText)}

Single(key, v) == PyDict(<< <<key, v>> >>)
OneSkillList == PyList(<< PyStr(<<"b">>) >>)

\* the arguments of the model: None and the empty values, raw text,
\* numbers, flat lists, records with one field at top level or under
\* 'result', and records with two fields
SkillInputs ==
    {PyNone, PyStr(<<>>), PyStr(RawSkillsText), PyInt(0), PyInt(5), PyDict(<<>>)}
    \cup EntryLists
    \cup {Single(k, f) : k \in {TechnicalSkillsKey, SkillsRequiredKey, OtherKey},
                         f \in FieldValues}
    \cup {Single(ResultKey, Single(k, f)) :
            k \in {TechnicalSkillsKey, SkillsRequiredKey, OtherKey}, f \in FieldValues}
    \cup {PyDict(<< <<ResultKey, PyNone>>, <<TechnicalSkillsKey, f>> >>) : f \in FieldValues}
    \cup {PyDict(<< <<TechnicalSkillsKey, f>>, <<SkillsRequiredKey, OneSkillList>> >>) :
            f \in FieldValues}
    \cup {PyDict(<< <<ResultKey, Single(SkillsRequiredKey, OneSkillList)>>,
                    <<TechnicalSkillsKey, f>> >>) : f \in FieldValues}

InitEnsure ==
    /\ MatcherUnused
    /\ ParserUnused
    /\ NumindUnused
    /\ SkillsUnused
    /\ RatingUnused
    /\ JsonUnused
    /\ RunUnused
    /\ skill_input \in SkillInputs
    /\ ensure_call = "idle"
    /\ ensure_ret = Returned(<<>>)

CallEnsureSkillList ==
    /\ ensure_call = "idle"
    /\ ensure_call' = "_ensure_skill_list"
    /\ ensure_ret' = ensure_skill_list(skill_input)
    /\ UNCHANGED skill_input

CallExtractSkillsFromResume ==
    /\ ensure_call = "idle"
    /\ ensure_call' = "extract_skills_from_resume"
    /\ ensure_ret' = extract_skills_from_resume(skill_input)
    /\ UNCHANGED skill_input

CallExtractSkillsFromJd ==
    /\ ensure_call = "idle"
    /\ ensure_call' = "extract_skills_from_jd"
    /\ ensure_ret' = extract_skills_from_jd(skill_input)
    /\ UNCHANGED skill_input

NextEnsure ==
    \/ CallEnsureSkillList /\ UNCHANGED <<skill_vars, rating_vars, json_vars, run_vars, numind_vars, parser_vars, matcher_vars>>
    \/ CallExtractSkillsFromResume /\ UNCHANGED <<skill_vars, rating_vars, json_vars, run_vars, numind_vars, parser_vars, matcher_vars>>
    \/ CallExtractSkillsFromJd /\ UNCHANGED <<skill_vars, rating_vars, json_vars, run_vars, numind_vars, parser_vars, matcher_vars>>

SpecEnsure == InitEnsure /\ [][NextEnsure]_vars

(***************************************************************************)
(* Properties of _ensure_skill_list.                                       *)
(***************************************************************************)
EnsureCalled == ensure_call # "idle"

\* a flat list, None, an empty value, or a record with a known skills key
\* whose field is a list
AcceptedShape(x) ==
    \/ ~bool(x)
    \/ x.t = "list"
    \/ /\ x.t = "dict"
       /\ \/ /\ DictHas(x.d, ResultKey) /\ DictGet(x.d, ResultKey).t = "dict"
             /\ get(DictGet(x.d, ResultKey).d, TechnicalSkillsKey).t = "list"
          \/ /\ ~(DictHas(x.d, ResultKey) /\ DictGet(x.d, ResultKey).t = "dict")
             /\ DictHas(x.d, TechnicalSkillsKey)
             /\ DictGet(x.d, TechnicalSkillsKey).t = "list"
          \/ /\ ~(DictHas(x.d, ResultKey) /\ DictGet(x.d, ResultKey).t = "dict")
             /\ ~DictHas(x.d, TechnicalSkillsKey)
             /\ DictHas(x.d, SkillsRequiredKey)
             /\ DictGet(x.d, SkillsRequiredKey).t = "list"

\* C21: for every accepted input shape the returned list holds only
\* trimmed strings and no empty string, and None and empty inputs give the
\* empty list.
C21_TrimmedAndNonEmpty ==
    (EnsureCalled /\ AcceptedShape(skill_input)) =>
        /\ ~ensure_ret.raised
        /\ \A k \in DOMAIN ensure_ret.value :
               /\ ensure_ret.value[k] # <<>>
               /\ strip(ensure_ret.value[k]) = ensure_ret.value[k]
        /\ ~bool(skill_input) => ensure_ret.value = <<>>

\* the place of the k-th entry of items that is true
KthKept(items, k) ==
    LET kept == {j \in DOMAIN items : bool(items[j])}
    IN  CHOOSE j \in kept : Cardinality({h \in kept : h <= j}) = k

\* l is the true entries of items in their order, each as a trimmed string
\* with its letter case
KeptEntriesTrimmed(items, l) ==
    /\ Len(l) = Cardinality({j \in DOMAIN items : bool(items[j])})
    /\ \A k \in DOMAIN l : l[k] = strip(str(items[KthKept(items, k)]))

\* C22 as stated: the normalizer returns a deduplicated, lowercase list:
\* no two entries of its output are equal up to letter case and every
\* entry is case-folded.
C22_DeduplicatedLowercase ==
    (EnsureCalled /\ ~ensure_ret.raised) =>
        /\ \A k \in DOMAIN ensure_ret.value :
               lower(ensure_ret.value[k]) = ensure_ret.value[k]
        /\ \A k, l \in DOMAIN ensure_ret.value :
               k # l => lower(ensure_ret.value[k]) # lower(ensure_ret.value[l])

\* C22 amended: the normalizer neither folds case nor removes repeated
\* entries: for a list it returns the true entries in input order, each
\* converted to a string and trimmed.
C22_KeepsCaseAndRepeats ==
    (EnsureCalled /\ skill_input.t = "list") =>
        /\ ~ensure_ret.raised
        /\ KeptEntriesTrimmed(skill_input.items, ensure_ret.value)

\* ['A ', 'a'] comes back as ['A', 'a']
C22_Witness ==
    /\ EnsureCalled
    /\ skill_input = PyList(<< PyStr(<<"A", " ">>), PyStr(<<"a">>) >>)
    /\ ensure_ret.value = << <<"A">>, <<"a">> >>

\* C23: _ensure_skill_list never raises, whatever its input: lists with
\* entries of any type, records whose skills field is None or not a list,
\* records with unknown keys, None and any other value.
C23_NeverRaises == EnsureCalled => ~ensure_ret.raised

\* the dict under the 'result' key of record x, when there is one
HasWrapper(x) == DictHas(x.d, ResultKey) /\ DictGet(x.d, ResultKey).t = "dict"
Wrapped(x) == DictGet(x.d, ResultKey).d

\* the skills fields of record x: under either known key, at top level or
\* under the 'result' wrapper
SkillsFields(x) ==
    {DictGet(x.d, k) : k \in {k \in {TechnicalSkillsKey, SkillsRequiredKey} : DictHas(x.d, k)}}
    \cup IF HasWrapper(x)
         THEN {DictGet(Wrapped(x), k) :
                 k \in {k \in {TechnicalSkillsKey, SkillsRequiredKey} : DictHas(Wrapped(x), k)}}
         ELSE {}

\* C24 as stated: for a record that holds its skills as a list under
\* 'Technical Skills' or 'Skills Required', at top level or one level under
\* 'result', the normalizer returns the non-empty entries of that field,
\* trimmed and in their original order.
C24_ReadsEitherKeyAtEitherLevel ==
    (EnsureCalled /\ skill_input.t = "dict") =>
        \A f \in SkillsFields(skill_input) :
            (Cardinality(SkillsFields(skill_input)) = 1 /\ f.t = "list") =>
                /\ ~ensure_ret.raised
                /\ KeptEntriesTrimmed(f.items, ensure_ret.value)

\* the one field the normalizer reads in record x: 'Technical Skills' under
\* a 'result' wrapper when x has the wrapper, else 'Technical Skills' at top
\* level, else 'Skills Required' at top level; a missing field reads as []
FieldRead(x) ==
    IF HasWrapper(x)
    THEN IF DictHas(Wrapped(x), TechnicalSkillsKey)
         THEN DictGet(Wrapped(x), TechnicalSkillsKey) ELSE PyList(<<>>)
    ELSE IF DictHas(x.d, TechnicalSkillsKey) THEN DictGet(x.d, TechnicalSkillsKey)
    ELSE DictGet(x.d, SkillsRequiredKey)

\* C24 amended: for a record with a 'result' wrapper, a top-level
\* 'Technical Skills' field or a top-level 'Skills Required' field, the
\* normalizer reads one field, 'Technical Skills' under the wrapper before
\* 'Technical Skills' at top level before 'Skills Required' at top level,
\* and when that field is a list returns its true entries, trimmed and in
\* their original order; 'Skills Required' under the wrapper is never read.
C24_ReadsOneFieldByPrecedence ==
    (/\ EnsureCalled
     /\ skill_input.t = "dict"
     /\ \/ HasWrapper(skill_input)
        \/ DictHas(skill_input.d, TechnicalSkillsKey)
        \/ DictHas(skill_input.d, SkillsRequiredKey)
     /\ FieldRead(skill_input).t = "list") =>
        /\ ~ensure_ret.raised
        /\ KeptEntriesTrimmed(FieldRead(skill_input).items, ensure_ret.value)

\* {'result': {'Technical Skills': ['A ', '']}} gives ['A']
C24_Witness ==
    /\ EnsureCalled
    /\ skill_input = Single(ResultKey, Single(TechnicalSkillsKey,
                        PyList(<< PyStr(<<"A", " ">>), PyStr(<<>>) >>)))
    /\ ensure_ret.value = << <<"A">> >>

\* C25: in every analysis run the ranking is sorted and shown only after
\* the scoring step of every extracted candidate has finished, with an
\* entry or with an exception; before that the run shows no ranking.
C25_SortAfterAllScored ==
    pc = "done" =>
        /\ loop_i > Len(extracted_resumes)
        /\ \A j \in DOMAIN extracted_resumes :
               LET name == extracted_resumes[j].filename
               IN  /\ CallsFor(name) >= 1
                   /\ EntriesOf(name) # <<>> \/ StepRaised(name)

\* a shown ranking with the entries of both extracted candidates
C25_Witness ==
    /\ pc = "done"
    /\ Len(extracted_resumes) = 2
    /\ Len(rankings) = 2
    /\ \A j \in 1..2 : CallsFor(extracted_resumes[j].filename) = 1

\* what completion did for the candidate with this file name
OutcomeOf(name) ==
    completions[CHOOSE k \in DOMAIN completions : completions[k].name = name].outcome

\* the result in an entry: everything but the name
ResultIn(e) == <<e.score_and_explanation, e.skill_match_result, e.aggregate_score>>

\* C26: the result of a ranked candidate depends only on its own extracted
\* data, the job description and what the collaborators answered for it:
\* it is what the scoring step gives for these alone, whatever other
\* candidates the batch holds and wherever the candidate stands in it, and
\* two candidates with equal data and answers have equal results.
C26_ResultDependsOnOwnInputs ==
    /\ \A k \in DOMAIN rankings :
           LET name == rankings[k].name
           IN  <<rankings[k]>> =
                   RankStep(ResumeDataOf(name), OutcomeOf(name), jd_skills, model).entries
    /\ \A k, l \in DOMAIN rankings :
           (/\ ResumeDataOf(rankings[k].name).extracted
                  = ResumeDataOf(rankings[l].name).extracted
            /\ OutcomeOf(rankings[k].name) = OutcomeOf(rankings[l].name))
               => ResultIn(rankings[k]) = ResultIn(rankings[l])

\* two ranked candidates with the same skills and the same answer, the
\* second one scored after the first, with the same result
C26_Witness ==
    /\ Len(rankings) = 2
    /\ rankings[1].name # rankings[2].name
    /\ OutcomeOf(rankings[1].name) = Outcome("content", Rating7Text)
    /\ OutcomeOf(rankings[2].name) = Outcome("content", Rating7Text)
    /\ ResumeDataOf(rankings[1].name).extracted = ResumeDataOf(rankings[2].name).extracted
    /\ ResultIn(rankings[1]) = ResultIn(rankings[2])

(***************************************************************************)
(* The analysis run when a completion call may never answer.               *)
(***************************************************************************)
\* completion(...) is called without a timeout: the call of the candidate
\* at loop_i blocks and the run waits in it from then on
CompletionHangs ==
    /\ pc = "rank"
    /\ loop_i <= Len(extracted_resumes)
    /\ pc' = "waiting"
    /\ completions' = Append(completions,
            [name |-> extracted_resumes[loop_i].filename,
             outcome |-> Outcome("hang", <<>>)])
    /\ UNCHANGED <<resumes, jd_extracted, loop_i, extracted_resumes, rankings, jd_skills>>

NextRunLive ==
    \/ NextRun
    \/ CompletionHangs /\ UNCHANGED RunOther

\* the script runs on whenever it has a next step
SpecRunLive == InitRun /\ [][NextRunLive]_vars /\ WF_vars(NextRunLive)

\* C27: every analysis run eventually finishes with a ranking or an error
\* message, even when a completion call never answers.
C27_RunEventuallyFinishes == <>(pc \in {"done", "stopped"})

(***************************************************************************)
(* src/structured_data_extractor.py: the NuMind client wrapper.            *)
(* An optional value is <<>> for None and <<v>> for a value v.             *)
(***************************************************************************)
\* the keys passed by the sidebar and by other callers: None, blank strings
\* and keys with and without surrounding blanks
NumindKeys ==
    {<<>>, <<<<>>>>, <<<<" ">>>>, <<<<"k">>>>, <<<<" ", "k", " ">>>>,
     <<<<"j">>>>, <<<<"j", " ">>>>, <<<<"k", "j">>>>}

\* NuMind(api_key=...) returns a client holding the key
NuMind(key) == [api_key |-> key]

\* not key or not key.strip()
BlankKey(key) == key = <<>> \/ key[1] = <<>> \/ strip(key[1]) = <<>>

\* set_numind_api_key(key) from the globals (ak, cl); constructor_raises
\* tells whether NuMind(...) raised
set_numind_api_key(key, constructor_raises, ak, cl) ==
    IF BlankKey(key)
    THEN [api_key |-> ak, client |-> cl, value |-> FALSE]
    ELSE IF constructor_raises
         THEN [api_key |-> <<strip(key[1])>>, client |-> <<>>, value |-> FALSE]
         ELSE [api_key |-> <<strip(key[1])>>,
               client |-> <<NuMind(strip(key[1]))>>, value |-> TRUE]

is_numind_configured(cl) == cl # <<>>

NotConfiguredText == "NuMind client not configured. Please provide API key in the application sidebar."

\* what _client.extract(...) does: an output mapping or an exception
ExtractOutcomes ==
    {[raised |-> FALSE, text |-> "output"],
     [raised |-> TRUE, text |-> "401 Unauthorized"],
     [raised |-> TRUE, text |-> "Connection refused"]}

\* extract_resume_data / extract_jd_data share the body after the schema
extract_data(cl, o) ==
    IF cl = <<>>
    THEN [raised |-> FALSE, error |-> TRUE, text |-> NotConfiguredText]
    ELSE IF o.raised
         THEN [raised |-> FALSE, error |-> TRUE, text |-> o.text]
         ELSE [raised |-> FALSE, error |-> FALSE, text |-> o.text]

extract_resume_data(cl, o) == extract_data(cl, o)

extract_jd_data(cl, o) == extract_data(cl, o)

NumindTexts == {<<>>, <<"c", "v">>, <<"j", "d">>}

InitNumind ==
    /\ MatcherUnused
    /\ ParserUnused
    /\ SkillsUnused
    /\ RatingUnused
    /\ JsonUnused
    /\ RunUnused
    /\ EnsureUnused
    /\ api_key = <<>>
    /\ client = <<>>
    /\ numind_call = <<>>
    /\ numind_ret = <<>>

SetNumindApiKey ==
    \E key \in NumindKeys, constructor_raises \in BOOLEAN :
        LET r == set_numind_api_key(key, constructor_raises, api_key, client)
        IN  /\ api_key' = r.api_key
            /\ client' = r.client
            /\ numind_call' = <<"set_numind_api_key", key>>
            /\ numind_ret' = <<r.value>>

IsNumindConfigured ==
    /\ numind_call' = <<"is_numind_configured">>
    /\ numind_ret' = <<is_numind_configured(client)>>
    /\ UNCHANGED <<api_key, client>>

ExtractResumeData ==
    \E t \in NumindTexts, o \in ExtractOutcomes :
        /\ numind_call' = <<"extract_resume_data", t>>
        /\ numind_ret' = <<extract_resume_data(client, o)>>
        /\ UNCHANGED <<api_key, client>>

ExtractJdData ==
    \E t \in NumindTexts, o \in ExtractOutcomes :
        /\ numind_call' = <<"extract_jd_data", t>>
        /\ numind_ret' = <<extract_jd_data(client, o)>>
        /\ UNCHANGED <<api_key, client>>

NextNumind ==
    \/ SetNumindApiKey /\ UNCHANGED <<skill_vars, rating_vars, json_vars, run_vars, ensure_vars, parser_vars, matcher_vars>>
    \/ IsNumindConfigured /\ UNCHANGED <<skill_vars, rating_vars, json_vars, run_vars, ensure_vars, parser_vars, matcher_vars>>
    \/ ExtractResumeData /\ UNCHANGED <<skill_vars, rating_vars, json_vars, run_vars, ensure_vars, parser_vars, matcher_vars>>
    \/ ExtractJdData /\ UNCHANGED <<skill_vars, rating_vars, json_vars, run_vars, ensure_vars, parser_vars, matcher_vars>>

SpecNumind == InitNumind /\ [][NextNumind]_vars

NumindCalled(f) == numind_call # <<>> /\ numind_call[1] = f

\* C28: after any sequence of set_numind_api_key calls the return value
\* tells whether the client is configured: True means configured, False
\* means unconfigured, and an unconfigured client makes the two extraction
\* functions return an error mapping without raising.
C28_ReturnValueTellsConfigured ==
    /\ NumindCalled("set_numind_api_key") =>
           (numind_ret[1] <=> is_numind_configured(client))
    /\ (client = <<>> /\ (NumindCalled("extract_resume_data") \/ NumindCalled("extract_jd_data"))) =>
           (~numind_ret[1].raised /\ numind_ret[1].error)

(***************************************************************************)
(* src/src/job_parser.py: JobDescriptionParser and its connection cache.   *)
(***************************************************************************)
MaxParserCalls == 6

\* requests.get(".../api/tags", timeout=2): a status code, or an exception
\* (refused connection, expired timeout)
ProbeOutcomes ==
    {[raised |-> FALSE, status_code |-> 200],
     [raised |-> FALSE, status_code |-> 503],
     [raised |-> TRUE, status_code |-> 0]}

\* a variant that probes on every call
test_ollama_connection_uncached(cache, o) ==
    LET connected == ~o.raised /\ o.status_code = 200
    IN  [cache |-> [tested |-> TRUE, connected |-> connected],
         value |-> connected, probed |-> TRUE]

\* test_ollama_connection(self) with the probe's outcome o
test_ollama_connection(cache, o) ==
    IF cache.tested
    THEN [cache |-> cache, value |-> cache.connected, probed |-> FALSE]
    ELSE LET connected == ~o.raised /\ o.status_code = 200
         IN  [cache |-> [tested |-> TRUE, connected |-> connected],
              value |-> connected, probed |-> TRUE]

\* requests.post(".../api/generate", timeout=15) and what its answer leads
\* to: "parsed" is a 200 answer with at least two skills; every other
\* outcome raises inside the try block
GenerateOutcomes == {"parsed", "bad status", "short response", "insufficient skills", "exception"}

JobDescriptions == {<<>>, <<"python">>, <<"sql", " ", "git">>}

\* the mapping returned: which extraction produced it, and from what
Requirements(path, job_description) == [path |-> path, job_description |-> job_description]

extract_requirements_simple(job_description) == Requirements("simple", job_description)

\* extract_requirements_with_llm(self, job_description)
extract_requirements_with_llm(cache, job_description, po, go) ==
    LET t == test_ollama_connection(cache, po)
    IN  IF ~t.value
        THEN [cache |-> t.cache, probed |-> t.probed, posted |-> FALSE,
              value |-> extract_requirements_simple(job_description)]
        ELSE [cache |-> t.cache, probed |-> t.probed, posted |-> TRUE,
              value |-> IF go = "parsed"
                        THEN Requirements("llm", job_description)
                        ELSE extract_requirements_simple(job_description)]

InitParser ==
    /\ MatcherUnused
    /\ SkillsUnused
    /\ RatingUnused
    /\ JsonUnused
    /\ RunUnused
    /\ EnsureUnused
    /\ NumindUnused
    /\ connection_cache = [tested |-> FALSE, connected |-> FALSE]
    /\ probes = 0
    /\ posts = 0
    /\ first_probe = <<>>
    /\ parser_calls = 0
    /\ parser_call = <<>>
    /\ parser_ret = <<>>

Count(b) == IF b THEN 1 ELSE 0

TestOllamaConnection ==
    /\ parser_calls < MaxParserCalls
    /\ \E po \in ProbeOutcomes :
        LET t == test_ollama_connection(connection_cache, po)
        IN  /\ connection_cache' = t.cache
            /\ probes' = probes + Count(t.probed)
            /\ first_probe' = IF t.probed /\ first_probe = <<>> THEN <<t.value>> ELSE first_probe
            /\ parser_ret' = <<t.value>>
    /\ parser_call' = <<"test_ollama_connection">>
    /\ parser_calls' = parser_calls + 1
    /\ UNCHANGED posts

ExtractRequirementsWithLlm ==
    /\ parser_calls < MaxParserCalls
    /\ \E job_description \in JobDescriptions, po \in ProbeOutcomes, go \in GenerateOutcomes :
        LET r == extract_requirements_with_llm(connection_cache, job_description, po, go)
        IN  /\ connection_cache' = r.cache
            /\ probes' = probes + Count(r.probed)
            /\ posts' = posts + Count(r.posted)
            /\ first_probe' = IF r.probed /\ first_probe = <<>>
                              THEN <<r.cache.connected>> ELSE first_probe
            /\ parser_ret' = <<r.value>>
            /\ parser_call' = <<"extract_requirements_with_llm", job_description>>
    /\ parser_calls' = parser_calls + 1

NextParser ==
    \/ TestOllamaConnection /\ UNCHANGED <<skill_vars, rating_vars, json_vars, run_vars, ensure_vars, numind_vars, matcher_vars>>
    \/ ExtractRequirementsWithLlm /\ UNCHANGED <<skill_vars, rating_vars, json_vars, run_vars, ensure_vars, numind_vars, matcher_vars>>

SpecParser == InitParser /\ [][NextParser]_vars

ParserCalled(f) == parser_call # <<>> /\ parser_call[1] = f

\* C29: one parser instance probes the Ollama server at most once: the
\* first probe's outcome is stored, every later test_ollama_connection call
\* returns the stored outcome, and once the first probe failed
\* extract_requirements_with_llm always takes the simple keyword extraction
\* and sends nothing to the model.
C29_ProbesAtMostOnce ==
    /\ probes <= 1
    /\ (probes = 1) <=> connection_cache.tested
    /\ connection_cache.tested => first_probe = <<connection_cache.connected>>
    /\ ParserCalled("test_ollama_connection") => parser_ret = first_probe
    /\ first_probe = <<FALSE>> => posts = 0
    /\ (first_probe = <<FALSE>> /\ ParserCalled("extract_requirements_with_llm")) =>
           parser_ret[1] = extract_requirements_simple(parser_call[2])

\* a failed first probe, then a later call of each method answered from the
\* cache
C29_Witness ==
    /\ first_probe = <<FALSE>>
    /\ parser_calls = MaxParserCalls
    /\ ParserCalled("extract_requirements_with_llm")
    /\ parser_ret[1].path = "simple"

(***************************************************************************)
(* src/src/matcher.py: CandidateMatcher.                                   *)
(* The feedback texts (strengths, gaps) of a returned mapping are left     *)
(* out of the model's results: no score is computed from them.             *)
(***************************************************************************)
MaxLines == 2

\* a in b for two strs
IsSubstring(a, b) == \E p \in 1..(Len(b) + 1) : LiteralAt(b, p, a)

\* \w on the characters of the model's alphabet
IsWordChar(c) == c \notin {" ", "\n", "\t", "+", "-", ",", ".", "/", ":", "%"}

\* \b at position p: exactly one of s[p-1], s[p] is a word character
WordBoundary(s, p) ==
    (p > 1 /\ IsWordChar(s[p - 1])) # (p <= Len(s) /\ IsWordChar(s[p]))

\* the position after the longest run of blanks and signs from p: the
\* part \s*(?:\+|\-|\s)* of the years pattern
RECURSIVE SkipSigns(_, _)
SkipSigns(s, p) ==
    IF p <= Len(s) /\ (IsSpace(s[p]) \/ s[p] \in {"+", "-"}) THEN SkipSigns(s, p + 1) ELSE p

\* r'\b\d+\s*(?:\+|\-|\s)*years?\b' matched at p: the position after the
\* match, or 0
YearsAt(s, p) ==
    IF ~(p <= Len(s) /\ IsDigit(s[p]) /\ WordBoundary(s, p)) THEN 0
    ELSE LET r == SkipSigns(s, SkipDigits(s, p))
             e == r + 4
         IN  IF ~LiteralAt(s, r, <<"y", "e", "a", "r">>) THEN 0
             ELSE IF e <= Len(s) /\ s[e] = "s" /\ WordBoundary(s, e + 1) THEN e + 1
             ELSE IF WordBoundary(s, e) THEN e
             ELSE 0

\* len(re.findall(...)) of the years pattern from p: matches do not overlap
RECURSIVE CountYears(_, _)
CountYears(s, p) ==
    IF p > Len(s) THEN 0
    ELSE IF YearsAt(s, p) > 0 THEN 1 + CountYears(s, YearsAt(s, p))
    ELSE CountYears(s, p + 1)

\* r'\b(?:w1|w2|...)\b' matched at p: the position after the match, or 0
WordAt(s, p, words) ==
    LET ks == {k \in DOMAIN words :
                  /\ WordBoundary(s, p)
                  /\ LiteralAt(s, p, words[k])
                  /\ WordBoundary(s, p + Len(words[k]))}
    IN  IF ks = {} THEN 0 ELSE p + Len(words[Min(ks)])

RECURSIVE CountWords(_, _, _)
CountWords(s, p, words) ==
    IF p > Len(s) THEN 0
    ELSE IF WordAt(s, p, words) > 0 THEN 1 + CountWords(s, WordAt(s, p, words), words)
    ELSE CountWords(s, p + 1, words)

JobTitleWords == <<<<"s", "e", "n", "i", "o", "r">>, <<"l", "e", "a", "d">>, <<"p", "r", "i", "n", "c", "i", "p", "a", "l">>, <<"m", "a", "n", "a", "g", "e", "r">>, <<"d", "i", "r", "e", "c", "t", "o", "r">>, <<"a", "r", "c", "h", "i", "t", "e", "c", "t">>>>

CompanyWords == <<<<"i", "n", "c">>, <<"c", "o", "r", "p">>, <<"l", "t", "d">>, <<"l", "l", "c">>, <<"c", "o", "m", "p", "a", "n", "y">>, <<"t", "e", "c", "h", "n", "o", "l", "o", "g", "i", "e", "s">>>>

\* analyze_experience_level(self, resume_text)
analyze_experience_level(resume_text) ==
    LET text_lower == lower(resume_text)
        years_mentioned == CountYears(text_lower, 1)
        job_titles == CountWords(text_lower, 1, JobTitleWords)
        companies == CountWords(text_lower, 1, CompanyWords)
        experience_score == Min({100, (years_mentioned * 15) + (job_titles * 20) + (companies * 10)})
    IN  [score |-> experience_score,
         level |-> IF experience_score >= 80 THEN "Senior Level"
                   ELSE IF experience_score >= 50 THEN "Mid Level"
                   ELSE "Entry Level",
         years_mentioned |-> years_mentioned,
         senior_titles |-> job_titles]

\* skill_mappings, as <<main_skill, variants>> pairs
skill_mappings ==
    <<<<<<"j", "a", "v", "a", "s", "c", "r", "i", "p", "t">>, <<<<"j", "s">>, <<"n", "o", "d", "e">>, <<"r", "e", "a", "c", "t">>, <<"a", "n", "g", "u", "l", "a", "r">>>>>>,
      <<<<"p", "y", "t", "h", "o", "n">>, <<<<"d", "j", "a", "n", "g", "o">>, <<"f", "l", "a", "s", "k">>, <<"p", "a", "n", "d", "a", "s">>>>>>,
      <<<<"s", "q", "l">>, <<<<"m", "y", "s", "q", "l">>, <<"p", "o", "s", "t", "g", "r", "e", "s", "q", "l">>, <<"d", "a", "t", "a", "b", "a", "s", "e">>>>>>,
      <<<<"m", "a", "c", "h", "i", "n", "e", " ", "l", "e", "a", "r", "n", "i", "n", "g">>, <<<<"m", "l">>, <<"a", "i">>, <<"t", "e", "n", "s", "o", "r", "f", "l", "o", "w">>, <<"p", "y", "t", "o", "r", "c", "h">>>>>>,
      <<<<"a", "w", "s">>, <<<<"a", "m", "a", "z", "o", "n", " ", "w", "e", "b", " ", "s", "e", "r", "v", "i", "c", "e", "s">>, <<"e", "c", "2">>, <<"s", "3">>>>>>,
      <<<<"d", "o", "c", "k", "e", "r">>, <<<<"c", "o", "n", "t", "a", "i", "n", "e", "r", "i", "z", "a", "t", "i", "o", "n">>, <<"c", "o", "n", "t", "a", "i", "n", "e", "r", "s">>>>>>>>

\* whether the loop body adds req_skill to direct_matches or partial_matches
SkillMatches(req_skill, resume_skill_list, resume_text) ==
    \/ \E k \in DOMAIN resume_skill_list : resume_skill_list[k] = req_skill
    \/ IsSubstring(req_skill, resume_text)
    \/ \E m \in DOMAIN skill_mappings :
           /\ req_skill = skill_mappings[m][1]
           /\ \E v \in DOMAIN skill_mappings[m][2] :
                  LET variant == skill_mappings[m][2][v]
                  IN  \/ IsSubstring(variant, resume_text)
                      \/ \E k \in DOMAIN resume_skill_list : IsSubstring(variant, resume_skill_list[k])

\* a variant that rounds to the nearest integer
OverallScore_rounded(skills_score, experience_score) ==
    ((6 * skills_score) + (4 * experience_score) + 5) \div 10

\* int((skills_score * 0.6) + (experience_score * 0.4)); the double
\* arithmetic gives the exact integer part for every skills score in
\* 0..100 and every experience score (a multiple of 5)
OverallScore(skills_score, experience_score) ==
    ((6 * skills_score) + (4 * experience_score)) \div 10

\* calculate_match_simple(self, resume_data, job_requirements);
\* int((total_matches / len) * 100) is the exact integer part for lists of
\* fewer than 50 skills
calculate_match_simple(resume_data, job_requirements) ==
    LET resume_skill_list == [k \in DOMAIN resume_data.skills |-> strip(lower(resume_data.skills[k]))]
        required_skills == [k \in DOMAIN job_requirements.required_skills |->
                               strip(lower(job_requirements.required_skills[k]))]
        resume_text == lower(resume_data.raw_text)
        matches == {required_skills[k] : k \in
                       {j \in DOMAIN required_skills :
                           SkillMatches(required_skills[j], resume_skill_list, resume_text)}}
        total_matches == Cardinality(matches)
        skills_score == IF required_skills # <<>>
                        THEN Min({100, (total_matches * 100) \div Max({1, Len(required_skills)})})
                        ELSE 60
        experience_score == analyze_experience_level(resume_text).score
    IN  [filename |-> resume_data.filename,
         skills_score |-> skills_score,
         experience_score |-> experience_score,
         overall_score |-> OverallScore(skills_score, experience_score)]

SkillsScoreLabel == <<"S", "K", "I", "L", "L", "S", "_", "S", "C", "O", "R", "E", ":">>
ExperienceScoreLabel == <<"E", "X", "P", "E", "R", "I", "E", "N", "C", "E", "_", "S", "C", "O", "R", "E", ":">>
OverallScoreLabel == <<"O", "V", "E", "R", "A", "L", "L", "_", "S", "C", "O", "R", "E", ":">>
StrengthsLabel == <<"S", "T", "R", "E", "N", "G", "T", "H", "S", ":">>
GapsLabel == <<"G", "A", "P", "S", ":">>
DefaultStrengths == <<"L", "L", "M", " ", "a", "n", "a", "l", "y", "s", "i", "s", " ", "c", "o", "m", "p", "l", "e", "t", "e", "d">>
DefaultGaps == <<"R", "e", "v", "i", "e", "w", " ", "f", "e", "e", "d", "b", "a", "c", "k", " ", "a", "b", "o", "v", "e">>

\* re.search(r'\d+', line).group(): the leftmost run of digits, or <<>>
\* when the search finds nothing (and .group() raises)
FirstDigits(line) ==
    LET at == {p \in DOMAIN line : IsDigit(line[p])}
    IN  IF at = {} THEN <<>> ELSE SubSeq(line, Min(at), SkipDigits(line, Min(at)) - 1)

\* min(100, max(0, score)) of the digits found; old is kept when the
\* inner try block raised
ParsedScore(line, old) ==
    IF FirstDigits(line) = <<>> THEN old
    ELSE Min({100, Max({0, int(FirstDigits(line))})})

\* line.split(':', 1)[1].strip() of a line that starts with a label
AfterColon(line) ==
    LET at == {p \in DOMAIN line : line[p] = ":"}
    IN  strip(SubSeq(line, Min(at) + 1, Len(line)))

\* one pass of the loop over the lines of the response
ParseLine(match_result, raw_line) ==
    LET line == strip(raw_line)
    IN  IF LiteralAt(line, 1, SkillsScoreLabel)
        THEN [match_result EXCEPT !.skills_score = ParsedScore(line, @)]
        ELSE IF LiteralAt(line, 1, ExperienceScoreLabel)
        THEN [match_result EXCEPT !.experience_score = ParsedScore(line, @)]
        ELSE IF LiteralAt(line, 1, OverallScoreLabel)
        THEN [match_result EXCEPT !.overall_score = ParsedScore(line, @)]
        ELSE IF LiteralAt(line, 1, StrengthsLabel)
        THEN IF Len(AfterColon(line)) > 10
             THEN [match_result EXCEPT !.strengths = AfterColon(line)]
             ELSE match_result
        ELSE IF LiteralAt(line, 1, GapsLabel)
        THEN IF Len(AfterColon(line)) > 10
             THEN [match_result EXCEPT !.gaps = AfterColon(line)]
             ELSE match_result
        ELSE match_result

RECURSIVE ParseLines(_, _)
ParseLines(match_result, lines) ==
    IF lines = <<>> THEN match_result
    ELSE ParseLines(ParseLine(match_result, Head(lines)), Tail(lines))

\* the scores of a parsed result
Scores(match_result) ==
    [filename |-> match_result.filename,
     skills_score |-> match_result.skills_score,
     experience_score |-> match_result.experience_score,
     overall_score |-> match_result.overall_score]

\* calculate_match_with_llm(self, resume_data, job_requirements) when the
\* POST does o; fallback tells whether the value comes from the except
\* clause
calculate_match_with_llm(resume_data, job_requirements, o) ==
    LET simple == [fallback |-> TRUE,
                   value |-> calculate_match_simple(resume_data, job_requirements)]
        result_text == o.response
        match_result == ParseLines(
            [filename |-> resume_data.filename, skills_score |-> 50,
             experience_score |-> 50, overall_score |-> 50,
             strengths |-> DefaultStrengths, gaps |-> DefaultGaps],
            split(result_text, "\n"))
    IN  IF o.raised \/ o.status_code # 200 THEN simple
        ELSE IF result_text = <<>> \/ Len(strip(result_text)) < 50 THEN simple
        ELSE IF match_result.strengths = DefaultStrengths \/ Len(match_result.strengths) < 20
        THEN simple
        ELSE [fallback |-> FALSE, value |-> Scores(match_result)]

\* the lines a model answer is made of
ResponseLines ==
    {<<"S", "K", "I", "L", "L", "S", "_", "S", "C", "O", "R", "E", ":", " ", "8", "5">>,
     <<"S", "K", "I", "L", "L", "S", "_", "S", "C", "O", "R", "E", ":", " ", "1", "5", "0">>,
     <<" ", "E", "X", "P", "E", "R", "I", "E", "N", "C", "E", "_", "S", "C", "O", "R", "E", ":", " ", "-", "5">>,
     <<"E", "X", "P", "E", "R", "I", "E", "N", "C", "E", "_", "S", "C", "O", "R", "E", ":", " ", "n", "/", "a">>,
     <<"O", "V", "E", "R", "A", "L", "L", "_", "S", "C", "O", "R", "E", ":", " ", "7", "/", "1", "0">>,
     <<"S", "T", "R", "E", "N", "G", "T", "H", "S", ":", " ", "s", "t", "r", "o", "n", "g", " ", "p", "y", "t", "h", "o", "n", " ", "a", "n", "d", " ", "s", "q", "l", " ", "s", "k", "i", "l", "l", "s", ",", " ", "l", "e", "d", " ", "a", " ", "t", "e", "a", "m">>,
     <<"S", "T", "R", "E", "N", "G", "T", "H", "S", ":", " ", "k", "n", "o", "w", "s", " ", "p", "y", "t", "h", "o", "n">>}

RECURSIVE JoinLines(_)
JoinLines(lines) ==
    IF lines = <<>> THEN <<>>
    ELSE IF Len(lines) = 1 THEN lines[1]
    ELSE lines[1] \o <<"\n">> \o JoinLines(Tail(lines))

\* what requests.post(..., timeout=20) and response.json() do
MatchResponses ==
    {[raised |-> FALSE, status_code |-> 200, response |-> JoinLines(l)] :
        l \in SeqsUpTo(ResponseLines, MaxLines)}
    \cup {[raised |-> FALSE, status_code |-> 500, response |-> <<>>],
          [raised |-> TRUE, status_code |-> 0, response |-> <<>>]}

MatchResumes ==
    {[filename |-> "a.pdf", skills |-> <<<<"R", "u", "s", "t", " ">>, <<"s", "q", "l">>>>,
      raw_text |-> <<"s", "e", "n", "i", "o", "r", " ", "p", "y", "t", "h", "o", "n", " ", "d", "e", "v", "e", "l", "o", "p", "e", "r", " ", "5", " ", "y", "e", "a", "r", "s">>],
     [filename |-> "b.pdf", skills |-> <<>>, raw_text |-> <<>>],
     [filename |-> "c.pdf", skills |-> <<<<"R", "e", "a", "c", "t">>>>,
      raw_text |-> <<"l", "e", "a", "d", " ", "a", "r", "c", "h", "i", "t", "e", "c", "t", ",", " ", "a", "c", "m", "e", " ", "i", "n", "c", ",", " ", "3", "+", " ", "y", "e", "a", "r", "s", ",", " ", "2", " ", "y", "e", "a", "r", "s", ":", " ", "s", "e", "n", "i", "o", "r", " ", "m", "a", "n", "a", "g", "e", "r">>]}

MatchJobs ==
    {[required_skills |-> <<>>],
     [required_skills |-> <<<<"p", "y", "t", "h", "o", "n">>, <<"a", "w", "s">>, <<"d", "o", "c", "k", "e", "r">>>>],
     [required_skills |-> <<<<"j", "a", "v", "a", "s", "c", "r", "i", "p", "t">>, <<" ", "R", "u", "s", "t">>>>],
     [required_skills |-> <<<<"s", "q", "l">>, <<"s", "q", "l">>>>]}

InitMatcher ==
    /\ SkillsUnused
    /\ RatingUnused
    /\ JsonUnused
    /\ RunUnused
    /\ EnsureUnused
    /\ NumindUnused
    /\ ParserUnused
    /\ match_resume \in MatchResumes
    /\ match_job \in MatchJobs
    /\ match_response \in MatchResponses
    /\ match_call = "idle"
    /\ match_ret = <<>>

CallCalculateMatchWithLlm ==
    /\ match_call' = "calculate_match_with_llm"
    /\ match_ret' = <<calculate_match_with_llm(match_resume, match_job, match_response)>>
    /\ UNCHANGED <<match_resume, match_job, match_response>>

CallCalculateMatchSimple ==
    /\ match_call' = "calculate_match_simple"
    /\ match_ret' = <<[fallback |-> FALSE,
                       value |-> calculate_match_simple(match_resume, match_job)]>>
    /\ UNCHANGED <<match_resume, match_job, match_response>>

NextMatcher ==
    \/ CallCalculateMatchWithLlm /\ UNCHANGED <<skill_vars, rating_vars, json_vars, run_vars, ensure_vars, numind_vars, parser_vars>>
    \/ CallCalculateMatchSimple /\ UNCHANGED <<skill_vars, rating_vars, json_vars, run_vars, ensure_vars, numind_vars, parser_vars>>

SpecMatcher == InitMatcher /\ [][NextMatcher]_vars

LlmMatchReturned == match_call = "calculate_match_with_llm"

\* C30: every result of calculate_match_with_llm, from the model path or
\* from the fallback to calculate_match_simple, has its three scores in
\* 0..100, and on the fallback path overall_score is the integer part of
\* 0.6 * skills_score + 0.4 * experience_score.
C30_ScoresInRange ==
    LlmMatchReturned =>
        LET r == match_ret[1].value
        IN  /\ r.skills_score \in 0..100
            /\ r.experience_score \in 0..100
            /\ r.overall_score \in 0..100
            /\ match_ret[1].fallback =>
                   /\ 10 * r.overall_score <= (6 * r.skills_score) + (4 * r.experience_score)
                   /\ (6 * r.skills_score) + (4 * r.experience_score) < 10 * (r.overall_score + 1)

\* a fallback result whose weighted sum 33.8 is cut to 33
C30_Witness ==
    /\ LlmMatchReturned
    /\ match_ret[1].fallback
    /\ match_ret[1].value.skills_score = 33
    /\ match_ret[1].value.experience_score = 35
    /\ match_ret[1].value.overall_score = 33

\* a model-path result with a clamped score and a score left at its default
C30_ModelPathReached ==
    /\ LlmMatchReturned
    /\ ~match_ret[1].fallback
    /\ match_ret[1].value.skills_score = 100
    /\ match_ret[1].value.experience_score = 50
    /\ match_ret[1].value.overall_score = 50

====
